---- MODULE Spec2Model ----
(***************************************************************************)
(* Session lifecycle of pages/base_page.py (BasePage): mode resolution,    *)
(* driver creation for the local and the BrowserStack path, close(),       *)
(* __del__ and the context-manager protocol.                               *)
(*                                                                         *)
(* Python strings that the code lower-cases are sequences of one-character *)
(* strings; strings that are only compared for equality are TLA+ strings.  *)
(* An Optional value is None or Some(v).                                   *)
(***************************************************************************)
EXTENDS Integers, Sequences, FiniteSets, TLC

VARIABLES
  env,                \* the process environment read through utils/env_loader.py
  obj,                \* obj[s]: the attributes of BasePage object s
  driver,             \* driver[s]: the browser or remote session started for s
  calls,              \* calls[s]: the selenium and registry calls made for s, in order
  pc,                 \* pc[s]: "new", "failed", "ready", "inwith" or "dead"
  last,               \* last[s]: the latest call on s and its outcome
  closeCalls,         \* closeCalls[s]: how often close() has been entered on s
  req,                \* req[s]: the mode argument and the outcome of the constructor
  SHARED_BUILD_NAME,  \* the module global _SHARED_BUILD_NAME
  now,                \* the wall clock in seconds, read by get_build_name()
  resolved,           \* resolved[s]: the latest _get_capability_by_name call on s
  page,               \* page[s]: the state of the located element in s's browser
  wait,               \* wait[s]: the latest wait-bounded call on s and its progress
  build,              \* build[s]: where the thread creating s is in get_build_name()
  validator,          \* the BrowserStackValidator object and the results of its latest calls
  checked,            \* the results of the latest credential checks made on config
  listing,            \* the latest results of the capability list functions
  test,               \* the run of test_favorite_galaxy_cross_browser on session "s1"
  product             \* the latest filter_by_samsung and is_galaxy_s20_plus_visible calls on "s1"

vars == <<env, obj, driver, calls, pc, last, closeCalls, req,
          SHARED_BUILD_NAME, now, resolved, page, wait, build,
          validator,
          checked,
          listing,
          test,
          product>>

-----------------------------------------------------------------------------
(* Bounds *)

\* close() invocations (explicit, by __exit__ or by __del__) per session object
MaxCalls == 3

\* the most polling intervals that pass in one round of a wait loop: sleep()
\* returns after at least one interval
MaxStep == 2

\* length of a session's call trace up to which further direct calls of
\* _get_capability_by_name are made
MaxTrace == 4

\* last reading of the wall clock, in seconds after the start of the run
MaxClock == 2

-----------------------------------------------------------------------------
(* Values *)

None == [isNone |-> TRUE]

Some(x) == [isNone |-> FALSE, v |-> x]

\* truth value of an Optional[str] whose string is a character sequence
StrTruthy(o) == (~o.isNone) /\ Len(o.v) > 0

\* truth value of an Optional[str] whose string is a TLA+ string
NameTruthy(o) == (~o.isNone) /\ o.v # ""

UPPER == <<"A","B","C","D","E","F","G","H","I","J","K","L","M",
           "N","O","P","Q","R","S","T","U","V","W","X","Y","Z">>

LOWER == <<"a","b","c","d","e","f","g","h","i","j","k","l","m",
           "n","o","p","q","r","s","t","u","v","w","x","y","z">>

LowerChar(c) ==
  IF \E i \in 1..26 : UPPER[i] = c
  THEN LOWER[CHOOSE i \in 1..26 : UPPER[i] = c]
  ELSE c

\* str.lower()
Lower(str) == [i \in 1..Len(str) |-> LowerChar(str[i])]

s_empty == <<>>

s_local == <<"l","o","c","a","l">>

s_LOCAL == <<"L","O","C","A","L">>

s_browserstack == <<"b","r","o","w","s","e","r","s","t","a","c","k">>

s_BrowserStack == <<"B","r","o","w","s","e","r","S","t","a","c","k">>

s_cloud == <<"c","l","o","u","d">>

s_chrome == <<"c","h","r","o","m","e">>

s_Chrome == <<"C","h","r","o","m","e">>

s_firefox == <<"f","i","r","e","f","o","x">>

s_Firefox == <<"F","i","r","e","f","o","x">>

s_safari == <<"s","a","f","a","r","i">>

s_edge == <<"e","d","g","e">>

s_Safari == <<"S","a","f","a","r","i">>

\* Exceptions: the type and the leading words of the message
NoExc == [type |-> "none", msg |-> ""]

UnsupportedMode == [type |-> "ValueError", msg |-> "Unsupported execution mode"]

UnsupportedBrowser == [type |-> "ValueError", msg |-> "Unsupported local browser"]

UnknownCapability == [type |-> "ValueError", msg |-> "Unknown capability name"]

MissingEnv == [type |-> "ValueError", msg |-> "Required environment variable"]

\* what the selenium calls raise when they fail
StartError == [type |-> "WebDriverException", msg |-> "start"]

ResizeError == [type |-> "WebDriverException", msg |-> "set_window_size"]

ConnectError == [type |-> "WebDriverException", msg |-> "connect"]

QuitError == [type |-> "WebDriverException", msg |-> "quit"]

\* reading an attribute the object does not have
AttributeError == [type |-> "AttributeError", msg |-> "driver"]

\* what the body of a with-block raises when it fails
BlockError == [type |-> "AssertionError", msg |-> "block"]

\* what WebDriverWait.until raises when its time is up; until() is called
\* without a message
TimeoutException == [type |-> "TimeoutException", msg |-> ""]

\* what element.click(), element.clear() and element.send_keys() raise when
\* the browser refuses the action
ClickError == [type |-> "WebDriverException", msg |-> "click"]

ClearError == [type |-> "WebDriverException", msg |-> "clear"]

SendKeysError == [type |-> "WebDriverException", msg |-> "send_keys"]

-----------------------------------------------------------------------------
(* Inputs *)

Sessions == {"s1", "s2"}

\* the session objects the specification Spec drives
Tracked == {"s1"}

ModeArgs == {None, Some(s_empty), Some(s_local), Some(s_LOCAL),
             Some(s_browserstack), Some(s_BrowserStack), Some(s_cloud)}

BrowserArgs == {s_chrome, s_Chrome, s_firefox, s_safari}

CapabilityArgs == {None, Some(""), Some("Windows_10_Chrome"),
                   Some("Invalid_Capability")}

TimeoutArgs == {5, 30}

EnvModes == {None, Some(s_browserstack), Some(s_cloud)}

EnvUsers == {None, Some(""), Some("user")}

EnvKeys == {None, Some(""), Some("key")}

-----------------------------------------------------------------------------
(* utils/env_loader.py *)

\* os.getenv(key, default)
get_optional_env(e, key, default) ==
  IF e[key].isNone THEN default ELSE e[key].v

\* get_required_env testing "value is None": an empty value is returned
get_required_env_noneOnly(e, key) ==
  IF ~e[key].isNone
  THEN [exc |-> NoExc, v |-> e[key].v]
  ELSE [exc |-> MissingEnv, v |-> ""]

\* os.getenv(key), refused when unset or empty
get_required_env(e, key) ==
  IF NameTruthy(e[key])
  THEN [exc |-> NoExc, v |-> e[key].v]
  ELSE [exc |-> MissingEnv, v |-> ""]

\* a validate_browserstack_credentials that reads the username only
validate_browserstack_credentials_usernameOnly(e) ==
  IF get_required_env(e, "BROWSERSTACK_USERNAME").exc = MissingEnv
  THEN [exc |-> NoExc, v |-> FALSE]
  ELSE [exc |-> NoExc, v |-> TRUE]

\* config.validate_browserstack_credentials(): both properties are read, a
\* ValueError of either gives False
validate_browserstack_credentials(e) ==
  IF get_required_env(e, "BROWSERSTACK_USERNAME").exc = MissingEnv
  THEN [exc |-> NoExc, v |-> FALSE]
  ELSE IF get_required_env(e, "BROWSERSTACK_ACCESS_KEY").exc = MissingEnv
       THEN [exc |-> NoExc, v |-> FALSE]
       ELSE [exc |-> NoExc, v |-> TRUE]

\* checked before any check was made
NoChecks ==
  [has |-> None, username |-> None, access_key |-> None]

-----------------------------------------------------------------------------
(* utils/browserstack_config.py *)

\* f"samsung-galaxy-favoriting-{timestamp}"
BuildNameAt(t) == <<"samsung-galaxy-favoriting-", t>>

\* a get_build_name() that computes the name anew at every call
get_build_name_recomputes(shared, t) == Some(BuildNameAt(t))

\* the module global after a call of get_build_name() at clock reading t
get_build_name(shared, t) ==
  IF shared.isNone THEN Some(BuildNameAt(t)) ELSE shared

\* build[s] while the thread of s has not entered get_build_name(): the
\* statement it is at, the profile it resolves, the timestamp it took and
\* whether it has assigned the global
NoBuildCall == [at |-> "idle", name |-> "", timestamp |-> 0, wrote |-> FALSE]

SdkFlags ==
  ("browserstack.debug" :> TRUE) @@ ("browserstack.console" :> "info")
    @@ ("browserstack.networkLogs" :> TRUE)

\* get_windows_chrome with the account's credentials written into the profile
get_windows_chrome_withCredentials(b) ==
  [browserName |-> s_Chrome, browserVersion |-> "latest", os |-> "Windows",
   osVersion |-> "10",
   sessionName |-> "Samsung Galaxy S20+ Favoriting - Windows 10 Chrome",
   buildName |-> b,
   projectName |-> "Samsung Galaxy S20+ Cross-Browser Testing",
   local |-> FALSE, seleniumVersion |-> "4.15.0",
   resolution |-> "1920x1080"] @@ SdkFlags
    @@ ("browserstack.user" :> "user") @@ ("browserstack.key" :> "key")

get_windows_chrome(b) ==
  [browserName |-> s_Chrome, browserVersion |-> "latest", os |-> "Windows",
   osVersion |-> "10",
   sessionName |-> "Samsung Galaxy S20+ Favoriting - Windows 10 Chrome",
   buildName |-> b,
   projectName |-> "Samsung Galaxy S20+ Cross-Browser Testing",
   local |-> FALSE, seleniumVersion |-> "4.15.0",
   resolution |-> "1920x1080"] @@ SdkFlags

get_macos_safari(b) ==
  [browserName |-> s_Safari, browserVersion |-> "latest", os |-> "OS X",
   osVersion |-> "Ventura",
   sessionName |-> "Samsung Galaxy S20+ Favoriting - macOS Safari",
   buildName |-> b,
   projectName |-> "Samsung Galaxy S20+ Cross-Browser Testing",
   local |-> FALSE, seleniumVersion |-> "4.15.0",
   resolution |-> "1920x1080"] @@ SdkFlags

get_macos_firefox(b) ==
  [browserName |-> s_Firefox, browserVersion |-> "latest", os |-> "OS X",
   osVersion |-> "Ventura",
   sessionName |-> "Samsung Galaxy S20+ Favoriting - macOS Ventura Firefox",
   buildName |-> b,
   projectName |-> "Samsung Galaxy S20+ Cross-Browser Testing",
   local |-> FALSE, seleniumVersion |-> "4.15.0",
   resolution |-> "1920x1080"] @@ SdkFlags

get_macos_monterey_firefox(b) ==
  [browserName |-> s_Firefox, browserVersion |-> "latest", os |-> "OS X",
   osVersion |-> "Monterey",
   sessionName |-> "Samsung Galaxy S20+ Favoriting - macOS Monterey Firefox",
   buildName |-> b,
   projectName |-> "Samsung Galaxy S20+ Cross-Browser Testing",
   local |-> FALSE, seleniumVersion |-> "4.15.0",
   resolution |-> "1920x1080"] @@ SdkFlags

get_samsung_galaxy_s22(b) ==
  [platformName |-> "Android", platformVersion |-> "12.0",
   deviceName |-> "Samsung Galaxy S22", browserName |-> s_Chrome,
   sessionName |-> "Samsung Galaxy S20+ Favoriting - Samsung Galaxy S22",
   buildName |-> b,
   projectName |-> "Samsung Galaxy S20+ Cross-Browser Testing",
   local |-> FALSE] @@ SdkFlags @@ ("browserstack.appiumLogs" :> TRUE)

\* get_all_capabilities in which the Ventura profile stands third
get_all_capabilities_venturaThird(b) ==
  <<get_windows_chrome(b), get_macos_safari(b), get_macos_firefox(b),
    get_samsung_galaxy_s22(b)>>

\* get_all_capabilities() with the build name b: the list of the four getters'
\* results
get_all_capabilities(b) ==
  <<get_windows_chrome(b), get_macos_safari(b), get_macos_monterey_firefox(b),
    get_samsung_galaxy_s22(b)>>

\* get_capability_names()
get_capability_names ==
  <<"Windows_10_Chrome", "macOS_Safari", "macOS_Monterey_Firefox",
    "Samsung_Galaxy_S22_Chrome">>

\* list(zip(names, capabilities)): pairs up to the end of the shorter list
Zip(names, capabilities) ==
  [i \in 1..(IF Len(names) < Len(capabilities) THEN Len(names) ELSE Len(capabilities)) |->
     <<names[i], capabilities[i]>>]

\* get_capabilities_with_names() with the build name b
get_capabilities_with_names(b) ==
  Zip(get_capability_names, get_all_capabilities(b))

\* listing before any list function was called
NoListing == [all |-> None, names |-> None, pairs |-> None]

-----------------------------------------------------------------------------
(* pages/base_page.py: driver creation *)

\* the names of capability_methods
CapabilityNames ==
  {"Windows_10_Chrome", "macOS_Safari", "macOS_Ventura_Firefox",
   "macOS_Monterey_Firefox", "Samsung_Galaxy_S22_Chrome"}

\* capability_methods[name]() with the build name b
CapabilityMethod(name, b) ==
  CASE name = "Windows_10_Chrome" -> get_windows_chrome(b)
    [] name = "macOS_Safari" -> get_macos_safari(b)
    [] name = "macOS_Ventura_Firefox" -> get_macos_firefox(b)
    [] name = "macOS_Monterey_Firefox" -> get_macos_monterey_firefox(b)
    [] name = "Samsung_Galaxy_S22_Chrome" -> get_samsung_galaxy_s22(b)

\* list(capability_methods.keys()): the names in the order of the dict literal
CapabilityKeys ==
  <<"Windows_10_Chrome", "macOS_Safari", "macOS_Ventura_Firefox",
    "macOS_Monterey_Firefox", "Samsung_Galaxy_S22_Chrome">>

\* _get_capability_by_name whose message lists get_capability_names() of
\* utils/browserstack_config.py instead of the keys of capability_methods
get_capability_by_name_listsConfigNames(name, shared, t) ==
  IF name \notin CapabilityNames
  THEN [exc |-> UnknownCapability, caps |-> None, shared |-> shared,
        listed |-> <<"Windows_10_Chrome", "macOS_Safari",
                     "macOS_Monterey_Firefox", "Samsung_Galaxy_S22_Chrome">>]
  ELSE [exc |-> NoExc,
        caps |-> Some(CapabilityMethod(name, get_build_name(shared, t).v)),
        shared |-> get_build_name(shared, t), listed |-> <<>>]

\* the capability dictionary of a name, the module global afterwards, and the
\* names that the message of the ValueError lists after "Available:"
get_capability_by_name(name, shared, t) ==
  IF name \notin CapabilityNames
  THEN [exc |-> UnknownCapability, caps |-> None, shared |-> shared,
        listed |-> CapabilityKeys]
  ELSE [exc |-> NoExc,
        caps |-> Some(CapabilityMethod(name, get_build_name(shared, t).v)),
        shared |-> get_build_name(shared, t), listed |-> <<>>]

\* resolved[s]: the name passed to _get_capability_by_name and what the call
\* did; done is FALSE while no call has been made
Resolution(name, got) ==
  [done |-> TRUE, name |-> name, exc |-> got.exc, caps |-> got.caps,
   listed |-> got.listed]

NoResolution ==
  [done |-> FALSE, name |-> "", exc |-> NoExc, caps |-> None, listed |-> <<>>]

\* browser_mapping in which the first "firefox" entry of the literal is kept
browser_mapping_firstFirefox(browser) ==
  CASE Lower(browser) = s_chrome -> "Windows_10_Chrome"
    [] Lower(browser) = s_safari -> "macOS_Safari"
    [] Lower(browser) = s_firefox -> "macOS_Monterey_Firefox"
    [] OTHER -> "Windows_10_Chrome"

\* browser_mapping.get(browser.lower(), "Windows_10_Chrome"); in the dict
\* literal the second "firefox" entry replaces the first
browser_mapping(browser) ==
  CASE Lower(browser) = s_chrome -> "Windows_10_Chrome"
    [] Lower(browser) = s_safari -> "macOS_Safari"
    [] Lower(browser) = s_firefox -> "macOS_Ventura_Firefox"
    [] OTHER -> "Windows_10_Chrome"

\* a freshly started browser window, before any resize
DefaultWindow == <<0, 0>>

NoDriver ==
  [kind |-> "none", window |-> DefaultWindow, options |-> "none", caps |-> None,
   sent |-> None]

LocalDriver(kind, window) ==
  [kind |-> kind, window |-> window, options |-> "none", caps |-> None,
   sent |-> None]

\* the options class chosen by comparing browserName without lower()
OptionsFor_exactCase(caps) ==
  LET browser_name ==
        IF "browserName" \in DOMAIN caps THEN caps["browserName"]
        ELSE s_Chrome
  IN  IF browser_name = s_chrome THEN "ChromeOptions"
      ELSE IF browser_name = s_firefox THEN "FirefoxOptions"
      ELSE "ChromeOptions"

\* the options class chosen from the capability dictionary
OptionsFor(caps) ==
  LET browser_name ==
        Lower(IF "browserName" \in DOMAIN caps THEN caps["browserName"]
              ELSE s_Chrome)
  IN  IF browser_name = s_chrome THEN "ChromeOptions"
      ELSE IF browser_name = s_firefox THEN "FirefoxOptions"
      ELSE "ChromeOptions"

\* the capabilities a new options object of the class starts with
DefaultCapabilities(class) ==
  IF class = "FirefoxOptions"
  THEN [browserName |-> s_firefox, pageLoadStrategy |-> "normal",
        acceptInsecureCerts |-> TRUE]
  ELSE [browserName |-> s_chrome, pageLoadStrategy |-> "normal"]

\* for key, value in capabilities.items(): options.set_capability(key, value)
set_capabilities(class, capabilities) ==
  capabilities @@ DefaultCapabilities(class)

\* _create_local_driver without the else branch: an unknown name gets chrome
_create_local_driver_defaultsToChrome(browser, startOk, resizeOk) ==
  LET kind == IF Lower(browser) = s_firefox THEN "firefox" ELSE "chrome"
      start == IF kind = "chrome" THEN "webdriver.Chrome" ELSE "webdriver.Firefox"
  IN  IF ~startOk
      THEN [exc |-> StartError, drv |-> NoDriver, calls |-> <<start>>]
      ELSE IF ~resizeOk
      THEN [exc |-> ResizeError, drv |-> LocalDriver(kind, DefaultWindow),
            calls |-> <<start, "set_window_size">>]
      ELSE [exc |-> NoExc, drv |-> LocalDriver(kind, <<1920, 1080>>),
            calls |-> <<start, "set_window_size">>]

\* _create_local_driver without the set_window_size call
_create_local_driver_noResize(browser, startOk, resizeOk) ==
  LET kind == IF Lower(browser) = s_chrome THEN "chrome"
              ELSE IF Lower(browser) = s_firefox THEN "firefox" ELSE "none"
      start == IF kind = "chrome" THEN "webdriver.Chrome" ELSE "webdriver.Firefox"
  IN  IF kind = "none"
      THEN [exc |-> UnsupportedBrowser, drv |-> NoDriver, calls |-> <<>>]
      ELSE IF ~startOk
      THEN [exc |-> StartError, drv |-> NoDriver, calls |-> <<start>>]
      ELSE [exc |-> NoExc, drv |-> LocalDriver(kind, DefaultWindow),
            calls |-> <<start>>]

_create_local_driver(browser, startOk, resizeOk) ==
  LET kind == IF Lower(browser) = s_chrome THEN "chrome"
              ELSE IF Lower(browser) = s_firefox THEN "firefox" ELSE "none"
      start == IF kind = "chrome" THEN "webdriver.Chrome" ELSE "webdriver.Firefox"
  IN  IF kind = "none"
      THEN [exc |-> UnsupportedBrowser, drv |-> NoDriver, calls |-> <<>>]
      ELSE IF ~startOk
      THEN [exc |-> StartError, drv |-> NoDriver, calls |-> <<start>>]
      ELSE IF ~resizeOk
      THEN [exc |-> ResizeError, drv |-> LocalDriver(kind, DefaultWindow),
            calls |-> <<start, "set_window_size">>]
      ELSE [exc |-> NoExc, drv |-> LocalDriver(kind, <<1920, 1080>>),
            calls |-> <<start, "set_window_size">>]

\* _create_browserstack_driver that calls webdriver.Remote a second time after
\* a failure before giving up
_create_browserstack_driver_retry(browser, capability_name, e, shared, t, connectOk) ==
  LET name == IF NameTruthy(capability_name) THEN capability_name.v
              ELSE browser_mapping(browser)
      got == get_capability_by_name(name, shared, t)
      user == get_required_env(e, "BROWSERSTACK_USERNAME")
      key == get_required_env(e, "BROWSERSTACK_ACCESS_KEY")
      capabilities ==
        ("browserstack.user" :> user.v) @@ ("browserstack.key" :> key.v)
          @@ got.caps.v
      Failed(exc, made) ==
        [exc |-> exc, drv |-> NoDriver, calls |-> made, shared |-> got.shared,
         resolved |-> Resolution(name, got)]
  IN  IF got.exc # NoExc THEN Failed(got.exc, <<"get_capability">>)
      ELSE IF user.exc # NoExc THEN Failed(user.exc, <<"get_capability">>)
      ELSE IF key.exc # NoExc THEN Failed(key.exc, <<"get_capability">>)
      ELSE IF ~connectOk
      THEN Failed(ConnectError,
                  <<"get_capability", "webdriver.Remote", "logger.error",
                    "webdriver.Remote", "logger.error">>)
      ELSE [exc |-> NoExc,
            drv |-> [kind |-> "remote", window |-> DefaultWindow,
                     options |-> OptionsFor(capabilities),
                     caps |-> Some(capabilities),
                     sent |-> Some(set_capabilities(OptionsFor(capabilities),
                                                    capabilities))],
            calls |-> <<"get_capability", "webdriver.Remote">>,
            shared |-> got.shared, resolved |-> Resolution(name, got)]

\* _create_browserstack_driver whose update() leaves out "browserstack.key"
_create_browserstack_driver_noKey(browser, capability_name, e, shared, t, connectOk) ==
  LET name == IF NameTruthy(capability_name) THEN capability_name.v
              ELSE browser_mapping(browser)
      got == get_capability_by_name(name, shared, t)
      user == get_required_env(e, "BROWSERSTACK_USERNAME")
      capabilities == ("browserstack.user" :> user.v) @@ got.caps.v
      Failed(exc, made) ==
        [exc |-> exc, drv |-> NoDriver, calls |-> made, shared |-> got.shared,
         resolved |-> Resolution(name, got)]
  IN  IF got.exc # NoExc THEN Failed(got.exc, <<"get_capability">>)
      ELSE IF user.exc # NoExc THEN Failed(user.exc, <<"get_capability">>)
      ELSE IF ~connectOk
      THEN Failed(ConnectError,
                  <<"get_capability", "webdriver.Remote", "logger.error">>)
      ELSE [exc |-> NoExc,
            drv |-> [kind |-> "remote", window |-> DefaultWindow,
                     options |-> OptionsFor(capabilities),
                     caps |-> Some(capabilities),
                     sent |-> Some(set_capabilities(OptionsFor(capabilities),
                                                    capabilities))],
            calls |-> <<"get_capability", "webdriver.Remote">>,
            shared |-> got.shared, resolved |-> Resolution(name, got)]

_create_browserstack_driver(browser, capability_name, e, shared, t, connectOk) ==
  LET name == IF NameTruthy(capability_name) THEN capability_name.v
              ELSE browser_mapping(browser)
      got == get_capability_by_name(name, shared, t)
      user == get_required_env(e, "BROWSERSTACK_USERNAME")
      key == get_required_env(e, "BROWSERSTACK_ACCESS_KEY")
      capabilities ==
        ("browserstack.user" :> user.v) @@ ("browserstack.key" :> key.v)
          @@ got.caps.v
      Failed(exc, made) ==
        [exc |-> exc, drv |-> NoDriver, calls |-> made, shared |-> got.shared,
         resolved |-> Resolution(name, got)]
  IN  IF got.exc # NoExc THEN Failed(got.exc, <<"get_capability">>)
      ELSE IF user.exc # NoExc THEN Failed(user.exc, <<"get_capability">>)
      ELSE IF key.exc # NoExc THEN Failed(key.exc, <<"get_capability">>)
      ELSE IF ~connectOk
      THEN Failed(ConnectError,
                  <<"get_capability", "webdriver.Remote", "logger.error">>)
      ELSE [exc |-> NoExc,
            drv |-> [kind |-> "remote", window |-> DefaultWindow,
                     options |-> OptionsFor(capabilities),
                     caps |-> Some(capabilities),
                     sent |-> Some(set_capabilities(OptionsFor(capabilities),
                                                    capabilities))],
            calls |-> <<"get_capability", "webdriver.Remote">>,
            shared |-> got.shared, resolved |-> Resolution(name, got)]

\* _create_driver with the two branches exchanged
_create_driver_swapped(execution_mode, browser, capability_name, e, shared, t, startOk, resizeOk, connectOk) ==
  IF Lower(execution_mode) = s_browserstack
  THEN [shared |-> shared, resolved |-> NoResolution]
         @@ _create_local_driver(browser, startOk, resizeOk)
  ELSE IF Lower(execution_mode) = s_local
  THEN _create_browserstack_driver(browser, capability_name, e, shared, t,
                                   connectOk)
  ELSE [exc |-> UnsupportedMode, drv |-> NoDriver, calls |-> <<>>,
        shared |-> shared, resolved |-> NoResolution]

\* _create_driver comparing the mode without lower()
_create_driver_caseSensitive(execution_mode, browser, capability_name, e, shared, t, startOk, resizeOk, connectOk) ==
  IF execution_mode = s_local
  THEN [shared |-> shared, resolved |-> NoResolution]
         @@ _create_local_driver(browser, startOk, resizeOk)
  ELSE IF execution_mode = s_browserstack
  THEN _create_browserstack_driver(browser, capability_name, e, shared, t,
                                   connectOk)
  ELSE [exc |-> UnsupportedMode, drv |-> NoDriver, calls |-> <<>>,
        shared |-> shared, resolved |-> NoResolution]

_create_driver(execution_mode, browser, capability_name, e, shared, t, startOk, resizeOk, connectOk) ==
  IF Lower(execution_mode) = s_local
  THEN [shared |-> shared, resolved |-> NoResolution]
         @@ _create_local_driver(browser, startOk, resizeOk)
  ELSE IF Lower(execution_mode) = s_browserstack
  THEN _create_browserstack_driver(browser, capability_name, e, shared, t,
                                   connectOk)
  ELSE [exc |-> UnsupportedMode, drv |-> NoDriver, calls |-> <<>>,
        shared |-> shared, resolved |-> NoResolution]

\* self.execution_mode = execution_mode or config.get_optional_env(...)
ResolveMode(execution_mode, e) ==
  IF StrTruthy(execution_mode) THEN execution_mode.v
  ELSE get_optional_env(e, "EXECUTION_MODE", s_local)

\* a BasePage object before __init__ has assigned anything
NewObject ==
  [timeout |-> 0, execution_mode |-> s_empty, browser |-> s_empty,
   capability_name |-> None, hasDriver |-> FALSE]

\* __init__: the object's attributes afterwards and what the call did;
\* self.driver is assigned only when _create_driver returns
BasePage_init(execution_mode, browser, capability_name, timeout, e, shared, t, startOk, resizeOk, connectOk) ==
  LET mode == ResolveMode(execution_mode, e)
      Result(made) ==
        [obj |-> [timeout |-> timeout, execution_mode |-> mode,
                  browser |-> browser, capability_name |-> capability_name,
                  hasDriver |-> (made.exc = NoExc)],
         exc |-> made.exc, drv |-> made.drv, calls |-> made.calls,
         shared |-> made.shared, resolved |-> made.resolved]
  IN  CHOOSE r \in {Result(made) : made \in
                      {_create_driver(mode, browser, capability_name, e,
                                      shared, t, startOk, resizeOk, connectOk)}} :
        TRUE

-----------------------------------------------------------------------------
(* pages/base_page.py: teardown *)

\* the exceptions an "except Exception" clause catches
IsException(x) ==
  x.type \in {"ValueError", "WebDriverException", "AssertionError",
              "AttributeError"}

\* close() testing self.driver without hasattr
close_unguarded(o, quitOk) ==
  IF o.hasDriver
  THEN [exc |-> IF quitOk THEN NoExc ELSE QuitError, calls |-> <<"quit">>,
        quit |-> IF quitOk THEN "ok" ELSE "raise"]
  ELSE [exc |-> AttributeError, calls |-> <<>>, quit |-> "none"]

\* close(): quits the driver when the object has one; quitOk is whether the
\* driver's quit() returns or raises
close(o, quitOk) ==
  IF o.hasDriver
  THEN [exc |-> IF quitOk THEN NoExc ELSE QuitError, calls |-> <<"quit">>,
        quit |-> IF quitOk THEN "ok" ELSE "raise"]
  ELSE [exc |-> NoExc, calls |-> <<>>, quit |-> "none"]

\* __del__ without the try block
BasePage_del_propagates(o, quitOk) == close(o, quitOk)

\* __del__(): close() inside try / except Exception: pass
BasePage_del(o, quitOk) ==
  LET r == close(o, quitOk)
  IN  [r EXCEPT !.exc = IF IsException(r.exc) THEN NoExc ELSE r.exc]

\* __exit__(exc_type, exc_val, exc_tb): close(); the return value None does
\* not suppress the block's exception
BasePage_exit(o, blockExc, quitOk) ==
  [suppress |-> FALSE] @@ close(o, quitOk)

\* what a with-statement raises to its caller, given what the block raised
\* and what __exit__ did
WithOutcome(blockExc, exit) ==
  IF exit.exc # NoExc THEN exit.exc
  ELSE IF blockExc # NoExc /\ ~exit.suppress THEN blockExc
  ELSE NoExc

-----------------------------------------------------------------------------
(* pages/base_page.py: wait-bounded element lookups *)

\* find_element, wait_for_element_visible, wait_for_element_clickable
WaitOps ==
  {"find_element", "wait_for_element_visible", "wait_for_element_clickable"}

\* the located element: not in the DOM, in the DOM but not displayed,
\* displayed but not enabled, displayed and enabled
ElementStates == {"absent", "hidden", "disabled", "enabled"}

\* the expected condition each call polls: presence_of_element_located,
\* visibility_of_element_located, element_to_be_clickable
Condition(op, element) ==
  CASE op = "find_element" -> element # "absent"
    [] op = "wait_for_element_visible" -> element \in {"disabled", "enabled"}
    [] op = "wait_for_element_clickable" -> element = "enabled"
    [] op = "find_elements" -> element # "absent"
    [] op = "click_element" -> element = "enabled"
    [] op = "send_keys_to_element" -> element \in {"disabled", "enabled"}
    [] op = "get_element_text" -> element \in {"disabled", "enabled"}

\* the methods that go on with the element after their wait: find_elements,
\* click_element, send_keys_to_element, get_element_text
CompositeOps ==
  {"find_elements", "click_element", "send_keys_to_element", "get_element_text"}

\* truth value of an Optional[int]
IntTruthy(o) == (~o.isNone) /\ o.v # 0

\* wait_time = timeout or self.timeout
WaitTime(timeout, o) == IF IntTruthy(timeout) THEN timeout.v ELSE o.timeout

\* polls per second of WebDriverWait: the default poll frequency is 0.5 s
PollsPerSecond == 2

\* an except clause that logs the timeout and returns None instead of raising
OnTimeout_returnsNone(op) ==
  [exc |-> NoExc, result |-> None, log |-> "error"]

\* an except clause that re-raises the timeout in every method, find_elements
\* included
OnTimeout_alwaysRaises(op) ==
  [exc |-> TimeoutException, result |-> None, log |-> "error"]

\* the except TimeoutException clause of a call: find_elements logs a
\* warning and returns []; every other call logs the error and raises it again
OnTimeout(op) ==
  IF op = "find_elements"
  THEN [exc |-> NoExc, result |-> Some(<<>>), log |-> "warning"]
  ELSE [exc |-> TimeoutException, result |-> None, log |-> "error"]

\* wait[s] while no wait-bounded call has been made on s
NoWait ==
  [op |-> "none", status |-> "idle", timeout |-> None, wait_time |-> 0,
   end_time |-> 0, elapsed |-> 0, polls |-> 0, held |-> FALSE,
   exc |-> NoExc, result |-> None, text |-> <<>>, acts |-> <<>>,
   waits |-> 0]

\* WebDriverWait(self.driver, wait_time).until(...) is entered: end_time is
\* wait_time from now, in polling intervals
StartWait(op, timeout, o) ==
  [op |-> op, status |-> "polling", timeout |-> timeout,
   wait_time |-> WaitTime(timeout, o),
   end_time |-> WaitTime(timeout, o) * PollsPerSecond,
   elapsed |-> 0, polls |-> 0, held |-> FALSE, exc |-> NoExc, result |-> None,
   text |-> <<>>, acts |-> <<>>, waits |-> 1]

\* one evaluation of the condition in until(): a true value is returned at
\* once, otherwise the loop goes to sleep
PollOnce(w, element) ==
  IF Condition(w.op, element)
  THEN [w EXCEPT !.status = IF w.op \in CompositeOps THEN "found"
                           ELSE "returned",
                 !.polls = @ + 1, !.held = TRUE, !.result = Some(element)]
  ELSE [w EXCEPT !.status = "sleeping", !.polls = @ + 1]

\* time.sleep(poll) took d intervals; "if time.monotonic() > end_time: break"
\* and the raise after the loop, handled by the call's except clause
AfterSleep(w, d) ==
  IF w.elapsed + d > w.end_time
  THEN [w EXCEPT !.status = IF OnTimeout(w.op).exc = NoExc /\ w.op \in CompositeOps
                           THEN "returned" ELSE "raised",
                 !.elapsed = @ + d,
                 !.exc = OnTimeout(w.op).exc, !.result = OnTimeout(w.op).result]
  ELSE [w EXCEPT !.status = "polling", !.elapsed = @ + d]

\* an action performed on the element the wait returned
Act(name, text) == [act |-> name, text |-> text]

\* self.driver.find_elements(*locator): the matches on the page at the call
Matches(element) == IF element = "absent" THEN <<>> ELSE <<element>>

\* find_elements after its wait: the list of a second lookup is returned
find_elements(w, element) ==
  [w EXCEPT !.status = "returned", !.result = Some(Matches(element))]

\* a click_element that waits and clicks a second time when the click fails
click_element_retries(w, clickOk) ==
  IF clickOk
  THEN [w EXCEPT !.status = "returned", !.result = None,
                 !.acts = <<Act("click", <<>>)>>]
  ELSE [w EXCEPT !.status = "returned", !.result = None, !.waits = @ + 1,
                 !.acts = <<Act("click", <<>>), Act("click", <<>>)>>]

\* click_element after its wait: element.click(), once
click_element(w, clickOk) ==
  [w EXCEPT !.status = IF clickOk THEN "returned" ELSE "raised",
            !.exc = IF clickOk THEN NoExc ELSE ClickError,
            !.result = None,
            !.acts = <<Act("click", <<>>)>>]

\* a send_keys_to_element that sends the text without its blanks and goes on
\* to send it when clear() has failed
send_keys_to_element_lenient(w, clearOk, sendOk) ==
  [w EXCEPT !.status = IF sendOk THEN "returned" ELSE "raised",
            !.exc = IF sendOk THEN NoExc ELSE SendKeysError,
            !.result = None,
            !.acts = <<Act("clear", <<>>),
                       Act("send_keys", SelectSeq(w.text, LAMBDA c : c # " "))>>]

\* send_keys_to_element after its wait: element.clear(), then
\* element.send_keys(text)
send_keys_to_element(w, clearOk, sendOk) ==
  IF ~clearOk
  THEN [w EXCEPT !.status = "raised", !.exc = ClearError, !.result = None,
                 !.acts = <<Act("clear", <<>>)>>]
  ELSE [w EXCEPT !.status = IF sendOk THEN "returned" ELSE "raised",
                 !.exc = IF sendOk THEN NoExc ELSE SendKeysError,
                 !.result = None,
                 !.acts = <<Act("clear", <<>>), Act("send_keys", w.text)>>]

\* get_element_text after its wait: str(element.text)
get_element_text(w) ==
  [w EXCEPT !.status = "returned", !.result = Some("text")]

\* what driver.find_element raises when nothing matches
NoSuchElementException == [type |-> "NoSuchElementException", msg |-> ""]

\* an is_element_present without the except clause: absence is raised
is_element_present_raises(element) ==
  [NoWait EXCEPT !.op = "is_element_present",
                 !.status = IF element = "absent" THEN "raised" ELSE "returned",
                 !.exc = IF element = "absent" THEN NoSuchElementException
                         ELSE NoExc,
                 !.polls = 1,
                 !.result = IF element = "absent" THEN None ELSE Some(TRUE)]

\* is_element_present: one driver.find_element call, NoSuchElementException
\* is turned into False
is_element_present(element) ==
  [NoWait EXCEPT !.op = "is_element_present", !.status = "returned",
                 !.polls = 1, !.result = Some(element # "absent")]

\* a call that keeps its timeout argument as the session's timeout
SelfAfterCall_storesOverride(o, timeout) ==
  IF IntTruthy(timeout) THEN [o EXCEPT !.timeout = timeout.v] ELSE o

\* the attributes of self after a wait-bounded call with a timeout argument:
\* the methods read self.timeout and assign nothing
SelfAfterCall(o, timeout) == o

-----------------------------------------------------------------------------
(* State *)

\* last[s]: the latest call on s, what it raised to its caller, what the
\* with-block raised, and what the driver's quit() did during the call
Call(op, exc, block, quit) ==
  [op |-> op, exc |-> exc, block |-> block, quit |-> quit]

NoCall == Call("none", NoExc, NoExc, "none")

\* validator before BrowserStackValidator() was called
NoValidator ==
  [made |-> "no", exc |-> NoExc, username |-> "", access_key |-> "",
   credentials |-> None, full |-> None]

\* what a step of the favoriting workflow raises when it fails
WorkflowError == [type |-> "Exception", msg |-> "workflow"]

\* test before the test function has reached its try block: the statement it
\* is at, the status reports, workflow steps and close() it has made, what the
\* workflow raised, and what the test raised to the runner once it is over
NoTest ==
  [at |-> "try", events |-> <<>>, steps |-> 0, workflow |-> NoExc,
   outcome |-> None]

\* product before any call of the product page was made
NoProductCalls == [filter |-> None, visible |-> None]

\* req[s]: the execution_mode argument of the constructor call and what the
\* call raised
NoRequest == [execution_mode |-> None, exc |-> NoExc]

Init ==
  /\ env \in [EXECUTION_MODE : EnvModes,
              BROWSERSTACK_USERNAME : EnvUsers,
              BROWSERSTACK_ACCESS_KEY : EnvKeys]
  /\ obj = [s \in Sessions |-> NewObject]
  /\ driver = [s \in Sessions |-> NoDriver]
  /\ calls = [s \in Sessions |-> <<>>]
  /\ pc = [s \in Sessions |-> "new"]
  /\ last = [s \in Sessions |-> NoCall]
  /\ closeCalls = [s \in Sessions |-> 0]
  /\ req = [s \in Sessions |-> NoRequest]
  /\ SHARED_BUILD_NAME = None
  /\ now = 0
  /\ resolved = [s \in Sessions |-> NoResolution]
  /\ page = [s \in Sessions |-> "absent"]
  /\ wait = [s \in Sessions |-> NoWait]
  /\ build = [s \in Sessions |-> NoBuildCall]
  /\ validator = NoValidator
  /\ checked = NoChecks
  /\ listing = NoListing
  /\ test = NoTest
  /\ product = NoProductCalls

\* BasePage(execution_mode, browser, capability_name, timeout)
Construct(s, execution_mode, browser, capability_name, timeout, startOk, resizeOk, connectOk) ==
  /\ pc[s] = "new"
  /\ \E r \in {BasePage_init(execution_mode, browser, capability_name, timeout,
                              env, SHARED_BUILD_NAME, now,
                              startOk, resizeOk, connectOk)} :
         /\ obj' = [obj EXCEPT ![s] = r.obj]
         /\ driver' = [driver EXCEPT ![s] = r.drv]
         /\ calls' = [calls EXCEPT ![s] = r.calls]
         /\ pc' = [pc EXCEPT ![s] = IF r.exc = NoExc THEN "ready" ELSE "failed"]
         /\ last' = [last EXCEPT ![s] = Call("create", r.exc, NoExc, "none")]
         /\ req' = [req EXCEPT ![s] =
                     [execution_mode |-> execution_mode, exc |-> r.exc]]
         /\ SHARED_BUILD_NAME' = r.shared
         /\ resolved' = [resolved EXCEPT ![s] = r.resolved]
  /\ UNCHANGED <<env, closeCalls, now, page, wait,
                 build,
                 validator,
                 checked,
                 listing,
                 test,
                 product>>

\* a close() on a driver that all sessions share: every session's driver
\* receives the quit
Close_sharedDriver(s, quitOk) ==
  /\ pc[s] \in {"failed", "ready", "inwith"}
  /\ closeCalls[s] < MaxCalls
  /\ LET r == close(obj[s], quitOk)
     IN  /\ calls' = [t \in Sessions |-> calls[t] \o r.calls]
         /\ last' = [last EXCEPT ![s] = Call("close", r.exc, NoExc, r.quit)]
  /\ closeCalls' = [closeCalls EXCEPT ![s] = closeCalls[s] + 1]
  /\ UNCHANGED <<env, obj, driver, pc, req, SHARED_BUILD_NAME, now, resolved, page, wait,
                 build,
                 validator,
                 checked,
                 listing,
                 test,
                 product>>

\* page.close()
Close(s, quitOk) ==
  /\ pc[s] \in {"failed", "ready", "inwith"}
  /\ closeCalls[s] < MaxCalls
  /\ LET r == close(obj[s], quitOk)
     IN  /\ calls' = [calls EXCEPT ![s] = calls[s] \o r.calls]
         /\ last' = [last EXCEPT ![s] = Call("close", r.exc, NoExc, r.quit)]
  /\ closeCalls' = [closeCalls EXCEPT ![s] = closeCalls[s] + 1]
  /\ UNCHANGED <<env, obj, driver, pc, req, SHARED_BUILD_NAME, now, resolved, page, wait,
                 build,
                 validator,
                 checked,
                 listing,
                 test,
                 product>>

\* the object is destroyed: __del__ runs
Del(s, quitOk) ==
  /\ pc[s] \in {"failed", "ready"}
  /\ closeCalls[s] < MaxCalls
  /\ LET r == BasePage_del(obj[s], quitOk)
     IN  /\ calls' = [calls EXCEPT ![s] = calls[s] \o r.calls]
         /\ last' = [last EXCEPT ![s] = Call("del", r.exc, NoExc, r.quit)]
  /\ closeCalls' = [closeCalls EXCEPT ![s] = closeCalls[s] + 1]
  /\ pc' = [pc EXCEPT ![s] = "dead"]
  /\ UNCHANGED <<env, obj, driver, req, SHARED_BUILD_NAME, now, resolved, page, wait,
                 build,
                 validator,
                 checked,
                 listing,
                 test,
                 product>>

\* "with page:" is entered: __enter__ returns self
Enter(s) ==
  /\ pc[s] = "ready"
  /\ pc' = [pc EXCEPT ![s] = "inwith"]
  /\ last' = [last EXCEPT ![s] = Call("enter", NoExc, NoExc, "none")]
  /\ UNCHANGED <<env, obj, driver, calls, closeCalls, req, SHARED_BUILD_NAME, now, resolved, page, wait,
                 build,
                 validator,
                 checked,
                 listing,
                 test,
                 product>>

\* the with-block ends, normally or by raising blockExc: __exit__ runs
Exit(s, blockExc, quitOk) ==
  /\ pc[s] = "inwith"
  /\ closeCalls[s] < MaxCalls
  /\ LET r == BasePage_exit(obj[s], blockExc, quitOk)
     IN  /\ calls' = [calls EXCEPT ![s] = calls[s] \o r.calls]
         /\ last' = [last EXCEPT ![s] =
                       Call("with", WithOutcome(blockExc, r), blockExc, r.quit)]
  /\ closeCalls' = [closeCalls EXCEPT ![s] = closeCalls[s] + 1]
  /\ pc' = [pc EXCEPT ![s] = "ready"]
  /\ UNCHANGED <<env, obj, driver, req, SHARED_BUILD_NAME, now, resolved, page, wait,
                 build,
                 validator,
                 checked,
                 listing,
                 test,
                 product>>

Next ==
  \E s \in Tracked :
    \/ \E m \in ModeArgs, b \in BrowserArgs, c \in CapabilityArgs,
          t \in TimeoutArgs, startOk \in BOOLEAN, resizeOk \in BOOLEAN,
          connectOk \in BOOLEAN :
         Construct(s, m, b, c, t, startOk, resizeOk, connectOk)
    \/ \E quitOk \in BOOLEAN : Close(s, quitOk)
    \/ \E quitOk \in BOOLEAN : Del(s, quitOk)
    \/ Enter(s)
    \/ \E blockExc \in {NoExc, BlockError}, quitOk \in BOOLEAN :
         Exit(s, blockExc, quitOk)

Spec == Init /\ [][Next]_vars

-----------------------------------------------------------------------------
(* Remote creation and the capability registry *)

\* the names a caller passes to _get_capability_by_name: every registered
\* name, an unregistered one and the empty string
ResolveArgs ==
  CapabilityNames \cup {"Invalid_Capability", ""}

RemoteCapabilityArgs == {None} \cup {Some(n) : n \in ResolveArgs}

RemoteBrowserArgs == {s_chrome, s_firefox, s_Firefox, s_safari, s_Safari, s_edge}

\* the arguments of the second session object
OtherCapabilityArgs == {None, Some("Samsung_Galaxy_S22_Chrome")}

\* the environment of a run in which EXECUTION_MODE is not set
RemoteInit == Init /\ env.EXECUTION_MODE = None

\* page._get_capability_by_name(name), called on a constructed page
Resolve(s, name) ==
  /\ pc[s] \in {"failed", "ready"}
  /\ Len(calls[s]) < MaxTrace
  /\ \E got \in {get_capability_by_name(name, SHARED_BUILD_NAME, now)} :
       /\ resolved' = [resolved EXCEPT ![s] = Resolution(name, got)]
       /\ SHARED_BUILD_NAME' = got.shared
       /\ last' = [last EXCEPT ![s] = Call("resolve", got.exc, NoExc, "none")]
  /\ calls' = [calls EXCEPT ![s] = calls[s] \o <<"get_capability">>]
  /\ UNCHANGED <<env, obj, driver, pc, closeCalls, req, now, page, wait,
                 build,
                 validator,
                 checked,
                 listing,
                 test,
                 product>>

RemoteNext ==
  \/ \E b \in RemoteBrowserArgs, c \in RemoteCapabilityArgs,
        connectOk \in BOOLEAN :
       Construct("s1", Some(s_browserstack), b, c, 30, TRUE, TRUE, connectOk)
  \/ \E c \in OtherCapabilityArgs, connectOk \in BOOLEAN :
       Construct("s2", Some(s_BrowserStack), s_firefox, c, 30, TRUE, TRUE,
                 connectOk)
  \/ \E name \in ResolveArgs : Resolve("s1", name)

SpecRemote == RemoteInit /\ [][RemoteNext]_vars

-----------------------------------------------------------------------------
(* The build name over a run in which the clock advances *)

\* a second passes on the wall clock read by datetime.datetime.now()
Tick ==
  /\ now < MaxClock
  /\ now' = now + 1
  /\ UNCHANGED <<env, obj, driver, calls, pc, last, closeCalls, req,
                 SHARED_BUILD_NAME, resolved, page, wait,
                 build,
                 validator,
                 checked,
                 listing,
                 test,
                 product>>

BuildNext ==
  \/ \E c \in {None, Some("macOS_Safari")}, connectOk \in BOOLEAN :
       Construct("s1", Some(s_browserstack), s_chrome, c, 30, TRUE, TRUE, connectOk)
  \/ \E c \in OtherCapabilityArgs :
       Construct("s2", Some(s_BrowserStack), s_firefox, c, 30, TRUE, TRUE, TRUE)
  \/ \E name \in ResolveArgs : Resolve("s1", name)
  \/ Tick

SpecBuild == RemoteInit /\ [][BuildNext]_vars

-----------------------------------------------------------------------------
(* First calls of get_build_name() from threads that create sessions at the
   same time; the statements of get_build_name are separate steps, since
   nothing in the module holds a lock around them *)

\* the profiles the threads ask for
ThreadCapabilityArgs == {"Windows_10_Chrome", "macOS_Safari"}

\* "if _SHARED_BUILD_NAME is None": the thread creating s enters
\* get_build_name() from the getter of profile name and tests the global
BuildTest(s, name) ==
  /\ pc[s] = "new"
  /\ build[s].at = "idle"
  /\ build' = [build EXCEPT ![s] =
                 [@ EXCEPT !.at = IF SHARED_BUILD_NAME.isNone
                                  THEN "timestamp" ELSE "return",
                           !.name = name]]
  /\ UNCHANGED <<env, obj, driver, calls, pc, last, closeCalls, req,
                 SHARED_BUILD_NAME, now, resolved, page, wait,
                 validator,
                 checked,
                 listing,
                 test,
                 product>>

\* timestamp = datetime.datetime.now().strftime(...)
BuildTimestamp(s) ==
  /\ build[s].at = "timestamp"
  /\ build' = [build EXCEPT ![s] = [@ EXCEPT !.at = "assign", !.timestamp = now]]
  /\ UNCHANGED <<env, obj, driver, calls, pc, last, closeCalls, req,
                 SHARED_BUILD_NAME, now, resolved, page, wait,
                 validator,
                 checked,
                 listing,
                 test,
                 product>>

\* _SHARED_BUILD_NAME = f"samsung-galaxy-favoriting-{timestamp}"
BuildAssign(s) ==
  /\ build[s].at = "assign"
  /\ SHARED_BUILD_NAME' = Some(BuildNameAt(build[s].timestamp))
  /\ build' = [build EXCEPT ![s] = [@ EXCEPT !.at = "return", !.wrote = TRUE]]
  /\ UNCHANGED <<env, obj, driver, calls, pc, last, closeCalls, req,
                 now, resolved, page, wait,
                 validator,
                 checked,
                 listing,
                 test,
                 product>>

\* "return _SHARED_BUILD_NAME" and the rest of the constructor: the global is
\* set by now, so the constructor's get_build_name() reads it as the return
\* statement does
BuildReturn(s, connectOk) ==
  /\ build[s].at = "return"
  /\ Construct(s, Some(s_browserstack), s_chrome, Some(build[s].name), 30, TRUE, TRUE, connectOk)

ConcurrentNext ==
  \/ \E s \in Sessions :
       \/ \E name \in ThreadCapabilityArgs : BuildTest(s, name)
       \/ BuildTimestamp(s)
       \/ BuildAssign(s)
       \/ \E connectOk \in BOOLEAN : BuildReturn(s, connectOk)
  \/ Tick

SpecBuildConcurrent == RemoteInit /\ [][ConcurrentNext]_vars

-----------------------------------------------------------------------------
(* The capability lists of utils/browserstack_config.py next to the names
   that _get_capability_by_name resolves *)

\* BrowserStackCapabilities.get_all_capabilities()
GetAllCapabilities ==
  /\ \E b \in {get_build_name(SHARED_BUILD_NAME, now)} :
       /\ SHARED_BUILD_NAME' = b
       /\ listing' = [listing EXCEPT !.all = Some(get_all_capabilities(b.v))]
  /\ UNCHANGED <<env, obj, driver, calls, pc, last, closeCalls, req,
                 now, resolved, page, wait, build, validator, checked,
                 test,
                 product>>

\* BrowserStackCapabilities.get_capability_names()
GetCapabilityNames ==
  /\ listing' = [listing EXCEPT !.names = Some(get_capability_names)]
  /\ UNCHANGED <<env, obj, driver, calls, pc, last, closeCalls, req,
                 SHARED_BUILD_NAME, now, resolved, page, wait, build,
                 validator, checked,
                 test,
                 product>>

\* BrowserStackCapabilities.get_capabilities_with_names()
GetCapabilitiesWithNames ==
  /\ \E b \in {get_build_name(SHARED_BUILD_NAME, now)} :
       /\ SHARED_BUILD_NAME' = b
       /\ listing' = [listing EXCEPT !.pairs = Some(get_capabilities_with_names(b.v))]
  /\ UNCHANGED <<env, obj, driver, calls, pc, last, closeCalls, req,
                 now, resolved, page, wait, build, validator, checked,
                 test,
                 product>>

RegistryNext ==
  \/ Construct("s1", Some(s_browserstack), s_chrome, None, 30, TRUE, TRUE, TRUE)
  \/ \E name \in ResolveArgs : Resolve("s1", name)
  \/ Tick
  \/ GetAllCapabilities
  \/ GetCapabilityNames
  \/ GetCapabilitiesWithNames

SpecRegistry == RemoteInit /\ [][RegistryNext]_vars

-----------------------------------------------------------------------------
(* Wait-bounded calls on a local session *)

\* the timeout argument of the constructor, in seconds
WaitTimeoutArgs == {1, 2}

\* the timeout argument of a wait-bounded call
OverrideArgs == {None, Some(0), Some(1), Some(3)}

\* a run in which nothing is set in the environment
WaitInit ==
  /\ Init
  /\ env = [EXECUTION_MODE |-> None, BROWSERSTACK_USERNAME |-> None,
            BROWSERSTACK_ACCESS_KEY |-> None]

\* page.find_element(locator, timeout) and its two siblings are called
BeginWait(s, op, timeout) ==
  /\ pc[s] = "ready"
  /\ wait[s].status \in {"idle", "returned", "raised"}
  /\ wait' = [wait EXCEPT ![s] = StartWait(op, timeout, obj[s])]
  /\ obj' = [obj EXCEPT ![s] = SelfAfterCall(obj[s], timeout)]
  /\ UNCHANGED <<env, driver, calls, pc, last, closeCalls, req,
                 SHARED_BUILD_NAME, now, resolved, page,
                 build,
                 validator,
                 checked,
                 listing,
                 test,
                 product>>

\* the running call evaluates its condition on the page
Poll(s) ==
  /\ wait[s].status = "polling"
  /\ \E w \in {PollOnce(wait[s], page[s])} :
       /\ wait' = [wait EXCEPT ![s] = w]
       /\ last' = [last EXCEPT ![s] =
                     IF w.status = "returned"
                     THEN Call(w.op, NoExc, NoExc, "none") ELSE last[s]]
  /\ UNCHANGED <<env, obj, driver, calls, pc, closeCalls, req,
                 SHARED_BUILD_NAME, now, resolved, page,
                 build,
                 validator,
                 checked,
                 listing,
                 test,
                 product>>

\* the running call sleeps for d polling intervals and tests the clock
Sleep(s, d) ==
  /\ wait[s].status = "sleeping"
  /\ \E w \in {AfterSleep(wait[s], d)} :
       /\ wait' = [wait EXCEPT ![s] = w]
       /\ last' = [last EXCEPT ![s] =
                     IF w.status \in {"raised", "returned"}
                     THEN Call(w.op, w.exc, NoExc, "none") ELSE last[s]]
  /\ UNCHANGED <<env, obj, driver, calls, pc, closeCalls, req,
                 SHARED_BUILD_NAME, now, resolved, page,
                 build,
                 validator,
                 checked,
                 listing,
                 test,
                 product>>

\* the page in the browser of s changes the located element
PageChange(s, element) ==
  /\ pc[s] = "ready"
  /\ element # page[s]
  /\ page' = [page EXCEPT ![s] = element]
  /\ UNCHANGED <<env, obj, driver, calls, pc, last, closeCalls, req,
                 SHARED_BUILD_NAME, now, resolved, wait,
                 build,
                 validator,
                 checked,
                 listing,
                 test,
                 product>>

\* the steps of the thread that runs the wait loop
WaitStep(s) == Poll(s) \/ \E d \in 1..MaxStep : Sleep(s, d)

WaitNext ==
  \E s \in Tracked :
    \/ \E t \in WaitTimeoutArgs :
         Construct(s, Some(s_local), s_chrome, None, t, TRUE, TRUE, TRUE)
    \/ \E op \in WaitOps, timeout \in OverrideArgs : BeginWait(s, op, timeout)
    \/ Poll(s)
    \/ \E d \in 1..MaxStep : Sleep(s, d)
    \/ \E element \in ElementStates : PageChange(s, element)

SpecWait == WaitInit /\ [][WaitNext]_vars

\* the thread inside WebDriverWait.until keeps running
SpecWaitFair == SpecWait /\ \A s \in Tracked : WF_vars(WaitStep(s))

-----------------------------------------------------------------------------
(* The interaction layer on a local session *)

\* the text argument of send_keys_to_element
TextArgs == {<<"a">>, <<" ", "a", " ">>}

\* every method of the interaction layer that waits
WaitingOps == WaitOps \cup CompositeOps

\* a wait-bounded method is called; text is the text argument of
\* send_keys_to_element
BeginCall(s, op, timeout, text) ==
  /\ pc[s] = "ready"
  /\ closeCalls[s] = 0
  /\ wait[s].status \in {"idle", "returned", "raised"}
  /\ wait' = [wait EXCEPT ![s] =
                [StartWait(op, timeout, obj[s]) EXCEPT !.text = text]]
  /\ obj' = [obj EXCEPT ![s] = SelfAfterCall(obj[s], timeout)]
  /\ UNCHANGED <<env, driver, calls, pc, last, closeCalls, req,
                 SHARED_BUILD_NAME, now, resolved, page,
                 build,
                 validator,
                 checked,
                 listing,
                 test,
                 product>>

\* the method running on s goes on with the element its wait returned; the
\* two flags say whether the element's actions succeed
Continue(s, ok1, ok2) ==
  /\ wait[s].status = "found"
  /\ \E w \in {CASE wait[s].op = "find_elements" ->
                      find_elements(wait[s], page[s])
                 [] wait[s].op = "click_element" ->
                      click_element(wait[s], ok1)
                 [] wait[s].op = "send_keys_to_element" ->
                      send_keys_to_element(wait[s], ok1, ok2)
                 [] wait[s].op = "get_element_text" ->
                      get_element_text(wait[s])} :
       /\ wait' = [wait EXCEPT ![s] = w]
       /\ last' = [last EXCEPT ![s] = Call(w.op, w.exc, NoExc, "none")]
  /\ UNCHANGED <<env, obj, driver, calls, pc, closeCalls, req,
                 SHARED_BUILD_NAME, now, resolved, page,
                 build,
                 validator,
                 checked,
                 listing,
                 test,
                 product>>

\* page.is_element_present(locator)
Exists(s) ==
  /\ pc[s] = "ready"
  /\ closeCalls[s] = 0
  /\ wait[s].status \in {"idle", "returned", "raised"}
  /\ wait' = [wait EXCEPT ![s] = is_element_present(page[s])]
  /\ last' = [last EXCEPT ![s] = Call("is_element_present", NoExc, NoExc, "none")]
  /\ UNCHANGED <<env, obj, driver, calls, pc, closeCalls, req,
                 SHARED_BUILD_NAME, now, resolved, page,
                 build,
                 validator,
                 checked,
                 listing,
                 test,
                 product>>

\* page.navigate_to(url): the browser loads a page
Navigate(s, element) ==
  /\ pc[s] = "ready"
  /\ closeCalls[s] = 0
  /\ wait[s].status \in {"idle", "returned", "raised"}
  /\ page' = [page EXCEPT ![s] = element]
  /\ last' = [last EXCEPT ![s] = Call("navigate_to", NoExc, NoExc, "none")]
  /\ UNCHANGED <<env, obj, driver, calls, pc, closeCalls, req,
                 SHARED_BUILD_NAME, now, resolved, wait,
                 build,
                 validator,
                 checked,
                 listing,
                 test,
                 product>>

\* page.close() between two calls of the interaction layer
CloseIdle(s, quitOk) ==
  /\ wait[s].status \in {"idle", "returned", "raised"}
  /\ Close(s, quitOk)

InteractNext ==
  \E s \in Tracked :
    \/ \E t \in WaitTimeoutArgs :
         Construct(s, Some(s_local), s_chrome, None, t, TRUE, TRUE, TRUE)
    \/ \E op \in WaitingOps \ {"send_keys_to_element"}, timeout \in OverrideArgs :
         BeginCall(s, op, timeout, <<>>)
    \/ \E timeout \in OverrideArgs, text \in TextArgs :
         BeginCall(s, "send_keys_to_element", timeout, text)
    \/ Poll(s)
    \/ \E d \in 1..MaxStep : Sleep(s, d)
    \/ \E ok1 \in BOOLEAN, ok2 \in BOOLEAN : Continue(s, ok1, ok2)
    \/ Exists(s)
    \/ \E element \in ElementStates : Navigate(s, element)
    \/ \E element \in ElementStates : PageChange(s, element)
    \/ \E quitOk \in BOOLEAN : CloseIdle(s, quitOk)

SpecInteract == WaitInit /\ [][InteractNext]_vars

\* the thread that runs the method keeps running
SpecInteractFair ==
  SpecInteract
    /\ \A s \in Tracked :
         WF_vars(WaitStep(s) \/ \E ok1 \in BOOLEAN, ok2 \in BOOLEAN :
                                  Continue(s, ok1, ok2))

-----------------------------------------------------------------------------
(* Two sessions in one process, created, used, failed and closed in any
   order *)

PairNext ==
  \E s \in Sessions :
    \/ \E mode \in {s_local, s_browserstack}, t \in WaitTimeoutArgs, startOk \in BOOLEAN :
         Construct(s, Some(mode), s_chrome, None, t, startOk, TRUE, TRUE)
    \/ BeginCall(s, "click_element", Some(3), <<>>)
    \/ Poll(s)
    \/ Sleep(s, MaxStep)
    \/ \E ok1 \in BOOLEAN : Continue(s, ok1, TRUE)
    \/ Exists(s)
    \/ Navigate(s, "enabled")
    \/ \E quitOk \in BOOLEAN : CloseIdle(s, quitOk)

SpecPair == WaitInit /\ [][PairNext]_vars

-----------------------------------------------------------------------------
(* utils/browserstack_validator.py and the credential checks of config *)

\* status codes of the plan endpoint
StatusCodes == {200, 401, 403, 500}

\* what the body of the response holds: the plan object, an object without
\* the plan fields, JSON that is no object, or no JSON at all
Bodies == {"plan", "object", "array", "unparsable"}

\* what requests.get does: it returns a response or raises
Response(status, body) == [kind |-> "response", status |-> status, body |-> body]

Raised(kind) == [kind |-> kind, status |-> 0, body |-> "none"]

RequestErrors == {"Timeout", "ConnectionError", "RequestException"}

HttpOutcomes ==
  {Response(st, b) : st \in StatusCodes, b \in Bodies}
    \cup {Raised(k) : k \in RequestErrors}

\* the (success, message) tuple of validate_credentials
Verdict(ok, msg) == [exc |-> NoExc, ok |-> ok, msg |-> msg]

\* response.json() followed by the two data.get calls: the plan and the
\* session limit, or the exception raised on the way
PlanOf(body) ==
  CASE body = "plan" -> [exc |-> "none", plan |-> "Automate", sessions |-> "5"]
    [] body = "object" -> [exc |-> "none", plan |-> "Unknown", sessions |-> "Unknown"]
    [] body = "array" -> [exc |-> "AttributeError", plan |-> "", sessions |-> ""]
    [] body = "unparsable" -> [exc |-> "JSONDecodeError", plan |-> "", sessions |-> ""]

\* a validate_credentials that gives every rejected status the message of 401
validate_credentials_oneRejection(r) ==
  CASE r.kind = "Timeout" ->
         Verdict(FALSE, <<"Connection timeout - check network connectivity">>)
    [] r.kind = "ConnectionError" ->
         Verdict(FALSE, <<"Connection error - check network connectivity">>)
    [] r.kind = "RequestException" ->
         Verdict(FALSE, <<"Unexpected error: ", r.kind>>)
    [] r.kind = "response" /\ r.status = 200 ->
         IF PlanOf(r.body).exc = "none"
         THEN Verdict(TRUE, <<"Valid credentials - Plan: ", PlanOf(r.body).plan,
                              ", Max sessions: ", PlanOf(r.body).sessions>>)
         ELSE Verdict(FALSE, <<"Unexpected error: ", PlanOf(r.body).exc>>)
    [] OTHER ->
         Verdict(FALSE, <<"Invalid username or access key">>)

\* a validate_credentials without the "except Exception" clause
validate_credentials_propagates(r) ==
  CASE r.kind = "Timeout" ->
         Verdict(FALSE, <<"Connection timeout - check network connectivity">>)
    [] r.kind = "ConnectionError" ->
         Verdict(FALSE, <<"Connection error - check network connectivity">>)
    [] r.kind = "RequestException" ->
         [exc |-> [type |-> r.kind, msg |-> ""], ok |-> FALSE, msg |-> <<>>]
    [] r.kind = "response" /\ r.status = 200 ->
         IF PlanOf(r.body).exc = "none"
         THEN Verdict(TRUE, <<"Valid credentials - Plan: ", PlanOf(r.body).plan,
                              ", Max sessions: ", PlanOf(r.body).sessions>>)
         ELSE [exc |-> [type |-> PlanOf(r.body).exc, msg |-> ""], ok |-> FALSE,
               msg |-> <<>>]
    [] r.kind = "response" /\ r.status = 401 ->
         Verdict(FALSE, <<"Invalid username or access key">>)
    [] OTHER ->
         Verdict(FALSE, <<"API returned status code: ", r.status>>)

\* validate_credentials on the outcome r of its request
validate_credentials(r) ==
  CASE r.kind = "Timeout" ->
         Verdict(FALSE, <<"Connection timeout - check network connectivity">>)
    [] r.kind = "ConnectionError" ->
         Verdict(FALSE, <<"Connection error - check network connectivity">>)
    [] r.kind = "RequestException" ->
         Verdict(FALSE, <<"Unexpected error: ", r.kind>>)
    [] r.kind = "response" /\ r.status = 200 ->
         IF PlanOf(r.body).exc = "none"
         THEN Verdict(TRUE, <<"Valid credentials - Plan: ", PlanOf(r.body).plan,
                              ", Max sessions: ", PlanOf(r.body).sessions>>)
         ELSE Verdict(FALSE, <<"Unexpected error: ", PlanOf(r.body).exc>>)
    [] r.kind = "response" /\ r.status = 401 ->
         Verdict(FALSE, <<"Invalid username or access key">>)
    [] OTHER ->
         Verdict(FALSE, <<"API returned status code: ", r.status>>)

\* full_validation on the outcome r of the request its validate_credentials
\* call makes
full_validation(r) ==
  IF validate_credentials(r).exc # NoExc
  THEN [exc |-> validate_credentials(r).exc, v |-> FALSE]
  ELSE IF ~validate_credentials(r).ok
       THEN [exc |-> NoExc, v |-> FALSE]
       ELSE [exc |-> NoExc, v |-> TRUE]

\* BrowserStackValidator.__init__: both credentials are read from config
BrowserStackValidator_init(e) ==
  IF get_required_env(e, "BROWSERSTACK_USERNAME").exc # NoExc
  THEN [NoValidator EXCEPT !.made = "raised",
                           !.exc = get_required_env(e, "BROWSERSTACK_USERNAME").exc]
  ELSE IF get_required_env(e, "BROWSERSTACK_ACCESS_KEY").exc # NoExc
       THEN [NoValidator EXCEPT !.made = "raised",
                                !.exc = get_required_env(e, "BROWSERSTACK_ACCESS_KEY").exc]
       ELSE [NoValidator EXCEPT !.made = "yes",
               !.username = get_required_env(e, "BROWSERSTACK_USERNAME").v,
               !.access_key = get_required_env(e, "BROWSERSTACK_ACCESS_KEY").v]

\* validator = BrowserStackValidator()
NewValidator ==
  /\ validator.made = "no"
  /\ validator' = BrowserStackValidator_init(env)
  /\ UNCHANGED <<env, obj, driver, calls, pc, last, closeCalls, req,
                 SHARED_BUILD_NAME, now, resolved, page, wait, build, checked,
                 listing,
                 test,
                 product>>

\* validator.validate_credentials(), whose request ends as r
ValidateCredentials(r) ==
  /\ validator.made = "yes"
  /\ validator' = [validator EXCEPT !.credentials =
                     Some([request |-> r, result |-> validate_credentials(r)])]
  /\ UNCHANGED <<env, obj, driver, calls, pc, last, closeCalls, req,
                 SHARED_BUILD_NAME, now, resolved, page, wait, build, checked,
                 listing,
                 test,
                 product>>

\* validator.full_validation(), whose request ends as r
FullValidation(r) ==
  /\ validator.made = "yes"
  /\ validator' = [validator EXCEPT !.full =
                     Some([request |-> r, result |-> full_validation(r)])]
  /\ UNCHANGED <<env, obj, driver, calls, pc, last, closeCalls, req,
                 SHARED_BUILD_NAME, now, resolved, page, wait, build, checked,
                 listing,
                 test,
                 product>>

\* config.validate_browserstack_credentials()
HasCredentials ==
  /\ checked' = [checked EXCEPT !.has = Some(validate_browserstack_credentials(env))]
  /\ UNCHANGED <<env, obj, driver, calls, pc, last, closeCalls, req,
                 SHARED_BUILD_NAME, now, resolved, page, wait, build, validator,
                 listing,
                 test,
                 product>>

\* config.browserstack_username or config.browserstack_access_key is read
ReadCredential(key, field) ==
  /\ checked' = [checked EXCEPT ![field] = Some(get_required_env(env, key))]
  /\ UNCHANGED <<env, obj, driver, calls, pc, last, closeCalls, req,
                 SHARED_BUILD_NAME, now, resolved, page, wait, build, validator,
                 listing,
                 test,
                 product>>

ValidatorNext ==
  \/ NewValidator
  \/ \E r \in HttpOutcomes : ValidateCredentials(r)
  \/ \E r \in HttpOutcomes : FullValidation(r)
  \/ HasCredentials
  \/ ReadCredential("BROWSERSTACK_USERNAME", "username")
  \/ ReadCredential("BROWSERSTACK_ACCESS_KEY", "access_key")

SpecValidator == Init /\ [][ValidatorNext]_vars

-----------------------------------------------------------------------------
(* tests/test_samsung_favorite_galaxy.py: the cross-browser test on "s1" *)

\* the capability names of the parametrize decorator
TestCapabilityArgs ==
  {"Windows_10_Chrome", "macOS_Ventura_Firefox", "Samsung_Galaxy_S22_Chrome"}

\* the steps of _run_favorite_workflow: navigate, log in, filter, favorite,
\* verify
WorkflowLength == 5

\* _mark_test_status(driver, status, reason): the report is sent; an
\* exception of execute_script is logged and not raised
mark_test_status(status, scriptOk) ==
  [exc |-> NoExc, event |-> [ev |-> "status", status |-> status, ok |-> scriptOk]]

StepEvent == [ev |-> "step", status |-> "", ok |-> TRUE]

CloseEvent(ok) == [ev |-> "close", status |-> "", ok |-> ok]

\* base_page = BasePage(execution_mode="browserstack", capability_name=...)
TestCreate(name, connectOk) ==
  /\ test.at = "try"
  /\ Construct("s1", Some(s_browserstack), s_chrome, Some(name), 30, TRUE, TRUE, connectOk)

\* self._mark_test_status(driver, "started", ...)
MarkStarted(scriptOk) ==
  /\ test.at = "try"
  /\ pc["s1"] = "ready"
  /\ test' = [test EXCEPT !.at = "workflow",
                          !.events = Append(@, mark_test_status("started", scriptOk).event)]
  /\ UNCHANGED <<env, obj, driver, calls, pc, last, closeCalls, req,
                 SHARED_BUILD_NAME, now, resolved, page, wait, build,
                 validator, checked, listing,
                 product>>

\* one step of self._run_favorite_workflow(...): it returns or raises
WorkflowStep(stepOk) ==
  /\ test.at = "workflow"
  /\ test' = IF stepOk
             THEN [test EXCEPT !.steps = @ + 1,
                               !.events = Append(@, StepEvent),
                               !.at = IF test.steps + 1 = WorkflowLength
                                      THEN "mark_passed" ELSE "workflow"]
             ELSE [test EXCEPT !.workflow = WorkflowError, !.at = "except"]
  /\ UNCHANGED <<env, obj, driver, calls, pc, last, closeCalls, req,
                 SHARED_BUILD_NAME, now, resolved, page, wait, build,
                 validator, checked, listing,
                 product>>

\* self._mark_test_status(driver, "passed", ...)
MarkPassed(scriptOk) ==
  /\ test.at = "mark_passed"
  /\ test' = [test EXCEPT !.at = "finally",
                          !.events = Append(@, mark_test_status("passed", scriptOk).event)]
  /\ UNCHANGED <<env, obj, driver, calls, pc, last, closeCalls, req,
                 SHARED_BUILD_NAME, now, resolved, page, wait, build,
                 validator, checked, listing,
                 product>>

\* the except clause: self._mark_test_status(driver, "failed", ...); raise
MarkFailed(scriptOk) ==
  /\ test.at = "except"
  /\ test' = [test EXCEPT !.at = "finally",
                          !.events = Append(@, mark_test_status("failed", scriptOk).event)]
  /\ UNCHANGED <<env, obj, driver, calls, pc, last, closeCalls, req,
                 SHARED_BUILD_NAME, now, resolved, page, wait, build,
                 validator, checked, listing,
                 product>>

\* the finally clause: base_page.close(); an exception of close() replaces
\* the exception that the except clause raised again
TestClose(quitOk) ==
  /\ test.at = "finally"
  /\ \E r \in {close(obj["s1"], quitOk)} :
       /\ calls' = [calls EXCEPT !["s1"] = calls["s1"] \o r.calls]
       /\ last' = [last EXCEPT !["s1"] = Call("close", r.exc, NoExc, r.quit)]
       /\ test' = [test EXCEPT !.at = "done",
                               !.events = Append(@, CloseEvent(r.exc = NoExc)),
                               !.outcome = Some(IF r.exc # NoExc THEN r.exc
                                                ELSE test.workflow)]
  /\ closeCalls' = [closeCalls EXCEPT !["s1"] = closeCalls["s1"] + 1]
  /\ UNCHANGED <<env, obj, driver, pc, req, SHARED_BUILD_NAME, now, resolved,
                 page, wait, build, validator, checked, listing,
                 product>>

TestNext ==
  \/ \E name \in TestCapabilityArgs, connectOk \in BOOLEAN : TestCreate(name, connectOk)
  \/ \E scriptOk \in BOOLEAN : MarkStarted(scriptOk)
  \/ \E stepOk \in BOOLEAN : WorkflowStep(stepOk)
  \/ \E scriptOk \in BOOLEAN : MarkPassed(scriptOk)
  \/ \E scriptOk \in BOOLEAN : MarkFailed(scriptOk)
  \/ \E quitOk \in BOOLEAN : TestClose(quitOk)

SpecTest == RemoteInit /\ [][TestNext]_vars

-----------------------------------------------------------------------------
(* pages/product_page.py on the local session "s1" *)

\* what the last statement of the fallback chain raises
FilterError ==
  [type |-> "Exception", msg |-> "Could not find or click Samsung filter checkbox"]

\* how an attempt on one locator ends: the wait for the clickable element
\* times out, the click raises, or the click is made
AttemptOutcomes == {"wait_failed", "click_failed", "clicked"}

Attempt(locator, outcome) == [locator |-> locator, outcome |-> outcome]

\* a filter_by_samsung that goes on to the span locator after a click on the
\* label and reports success when all attempts failed
filter_by_samsung_noStop(loaded, container, a1, a2, a3, filtered) ==
  IF ~loaded
  THEN [exc |-> TimeoutException, at |-> "wait_for_products_to_load", attempts |-> <<>>]
  ELSE IF ~container
  THEN [exc |-> TimeoutException, at |-> "get_vendor_filters_container", attempts |-> <<>>]
  ELSE IF ~filtered
  THEN [exc |-> TimeoutException, at |-> "wait_for_filtered_products_to_load",
        attempts |-> <<Attempt("label", a1), Attempt("span", a2)>>]
  ELSE [exc |-> NoExc, at |-> "done",
        attempts |-> <<Attempt("label", a1), Attempt("span", a2)>>]

\* filter_by_samsung: loaded, container and filtered say whether the waits
\* before and after the chain succeed, a1, a2 and a3 how the attempts on the
\* label, span and container locators end when they are made
filter_by_samsung(loaded, container, a1, a2, a3, filtered) ==
  LET attempts ==
        IF a1 = "clicked" THEN <<Attempt("label", a1)>>
        ELSE IF a2 = "clicked" THEN <<Attempt("label", a1), Attempt("span", a2)>>
        ELSE <<Attempt("label", a1), Attempt("span", a2), Attempt("container", a3)>>
  IN  IF ~loaded
      THEN [exc |-> TimeoutException, at |-> "wait_for_products_to_load",
            attempts |-> <<>>]
      ELSE IF ~container
      THEN [exc |-> TimeoutException, at |-> "get_vendor_filters_container",
            attempts |-> <<>>]
      ELSE IF attempts[Len(attempts)].outcome # "clicked"
      THEN [exc |-> FilterError, at |-> "chain", attempts |-> attempts]
      ELSE IF ~filtered
      THEN [exc |-> TimeoutException, at |-> "wait_for_filtered_products_to_load",
            attempts |-> attempts]
      ELSE [exc |-> NoExc, at |-> "done", attempts |-> attempts]

\* page.filter_by_samsung()
FilterBySamsung(loaded, container, a1, a2, a3, filtered) ==
  /\ pc["s1"] = "ready"
  /\ product' = [product EXCEPT !.filter =
                   Some(filter_by_samsung(loaded, container, a1, a2, a3, filtered))]
  /\ UNCHANGED <<env, obj, driver, calls, pc, last, closeCalls, req,
                 SHARED_BUILD_NAME, now, resolved, page, wait, build,
                 validator, checked, listing, test>>

\* what a lookup of the product card meets: no element before the timeout,
\* an element that is not displayed, one that is displayed, or one that has
\* gone stale by the time is_displayed() is called on it
CardStates == {"absent", "hidden", "shown", "stale"}

\* find_element(locator, timeout) followed by bool(element.is_displayed())
Displayed(card) ==
  CASE card = "absent" -> [exc |-> TimeoutException, found |-> FALSE, v |-> FALSE]
    [] card = "stale" ->
         [exc |-> [type |-> "StaleElementReferenceException", msg |-> ""],
          found |-> TRUE, v |-> FALSE]
    [] card = "hidden" -> [exc |-> NoExc, found |-> TRUE, v |-> FALSE]
    [] card = "shown" -> [exc |-> NoExc, found |-> TRUE, v |-> TRUE]

\* an is_galaxy_s20_plus_visible without the fallback to data-sku
is_galaxy_s20_plus_visible_idOnly(byId, bySku) ==
  IF Displayed(byId).exc = NoExc
  THEN [exc |-> NoExc, v |-> Displayed(byId).v, tried |-> <<"id">>,
        byId |-> byId, bySku |-> bySku]
  ELSE [exc |-> NoExc, v |-> FALSE, tried |-> <<"id">>,
        byId |-> byId, bySku |-> bySku]

\* is_galaxy_s20_plus_visible: byId and bySku are what the lookups by ID and
\* by data-sku meet; the result, the locators tried, and the two inputs
is_galaxy_s20_plus_visible(byId, bySku) ==
  IF Displayed(byId).exc = NoExc
  THEN [exc |-> NoExc, v |-> Displayed(byId).v, tried |-> <<"id">>,
        byId |-> byId, bySku |-> bySku]
  ELSE IF Displayed(bySku).exc = NoExc
       THEN [exc |-> NoExc, v |-> Displayed(bySku).v, tried |-> <<"id", "sku">>,
             byId |-> byId, bySku |-> bySku]
       ELSE [exc |-> NoExc, v |-> FALSE, tried |-> <<"id", "sku">>,
             byId |-> byId, bySku |-> bySku]

\* page.is_galaxy_s20_plus_visible()
IsGalaxyVisible(byId, bySku) ==
  /\ pc["s1"] = "ready"
  /\ product' = [product EXCEPT !.visible =
                   Some(is_galaxy_s20_plus_visible(byId, bySku))]
  /\ UNCHANGED <<env, obj, driver, calls, pc, last, closeCalls, req,
                 SHARED_BUILD_NAME, now, resolved, page, wait, build,
                 validator, checked, listing, test>>

ProductNext ==
  \/ \E t \in WaitTimeoutArgs :
       Construct("s1", Some(s_local), s_chrome, None, t, TRUE, TRUE, TRUE)
  \/ \E loaded \in BOOLEAN, container \in BOOLEAN, filtered \in BOOLEAN,
        a1 \in AttemptOutcomes, a2 \in AttemptOutcomes, a3 \in AttemptOutcomes :
       FilterBySamsung(loaded, container, a1, a2, a3, filtered)
  \/ \E byId \in CardStates, bySku \in CardStates : IsGalaxyVisible(byId, bySku)

SpecProduct == WaitInit /\ [][ProductNext]_vars

-----------------------------------------------------------------------------
(* Properties *)

\* the driver.quit() calls issued on behalf of session s
QuitCalls(s) == Cardinality({i \in DOMAIN calls[s] : calls[s][i] = "quit"})

\* the calls that start a browser process or open a remote connection
StartCalls == {"webdriver.Chrome", "webdriver.Firefox", "webdriver.Remote"}

\* s was created successfully and close() has run on it since
Closed(s) == obj[s].hasDriver /\ QuitCalls(s) >= 1

\* the constructor has run on s
Constructed(s) == pc[s] # "new"

\* C1: once a successfully created session has been closed, every further
\* close() (explicit, by __exit__ or by __del__) raises nothing and issues no
\* further quit to the driver: the driver is quit exactly once per session.
C1_CloseIdempotent ==
  [][\A s \in Sessions :
       (Closed(s) /\ closeCalls'[s] > closeCalls[s])
         => /\ QuitCalls(s)' = QuitCalls(s)
            /\ last'[s].quit = "none"]_vars

\* C2: on leaving a with-block close() has been invoked, whether the block
\* completed or raised, and an exception raised by the block is the one that
\* reaches the caller after the close.
C2_ScopedExitCloses ==
  \A s \in Sessions :
    last[s].op = "with"
      => /\ QuitCalls(s) >= 1
         /\ last[s].quit # "none"
         /\ last[s].block # NoExc => last[s].exc = last[s].block

\* C3: a failure of the driver's quit during close is swallowed: neither an
\* explicit close() nor a with-statement hands a cleanup error to the caller,
\* so the with-statement raises exactly what its block raised.
C3_CleanupErrorsSwallowed ==
  \A s \in Sessions :
    /\ last[s].op = "close" => last[s].exc = NoExc
    /\ last[s].op = "with" => last[s].exc = last[s].block

\* C4: __del__ raises nothing, whatever close() or the driver's quit does, for
\* a never-opened, an active and an already closed session.
C4_DelNeverRaises ==
  \A s \in Sessions : last[s].op = "del" => last[s].exc = NoExc

\* C4 witness: __del__ ran on an already closed session and the driver's quit
\* raised during it
C4_Witness ==
  \E s \in Sessions :
    last[s].op = "del" /\ last[s].quit = "raise" /\ QuitCalls(s) >= 2

\* C5: when the constructor failed before a driver was assigned, a later
\* close() or __del__ raises nothing and no quit is issued to any driver.
C5_NeverOpenedCloseSafe ==
  \A s \in Sessions :
    (Constructed(s) /\ req[s].exc # NoExc)
      => /\ QuitCalls(s) = 0
         /\ last[s].op \in {"close", "del"}
              => last[s].exc = NoExc /\ last[s].quit = "none"

\* C5 witness: close() and then __del__ ran on an object whose constructor
\* failed after the browser had been started
C5_Witness ==
  \E s \in Sessions :
    /\ req[s].exc = ResizeError
    /\ last[s].op = "del"
    /\ closeCalls[s] >= 2

\* the errors a failing create raises
DocumentedErrors ==
  {UnsupportedMode, UnsupportedBrowser, UnknownCapability, MissingEnv,
   StartError, ResizeError, ConnectError}

\* the recognised mode strings
IsLocalMode(mode) == Lower(mode) = s_local

IsRemoteMode(mode) == Lower(mode) = s_browserstack

C7_ModeResolution ==
  \A s \in Sessions :
    Constructed(s)
      => obj[s].execution_mode =
           IF ~req[s].execution_mode.isNone THEN req[s].execution_mode.v
           ELSE IF ~env.EXECUTION_MODE.isNone THEN env.EXECUTION_MODE.v
           ELSE s_local

\* C8: a resolved mode that is, ignoring case, neither "local" nor
\* "browserstack" makes create fail with the unsupported-mode error before a
\* browser is started, a capability resolved or a connection attempted; every
\* case variant of the two recognised values is accepted.
C8_UnsupportedMode ==
  \A s \in Sessions :
    Constructed(s)
      => IF IsLocalMode(obj[s].execution_mode)
            \/ IsRemoteMode(obj[s].execution_mode)
         THEN req[s].exc # UnsupportedMode
         ELSE /\ req[s].exc = UnsupportedMode
              /\ calls[s] = <<>>
              /\ driver[s].kind = "none"
              /\ SHARED_BUILD_NAME = None

\* C8 witness: create failed on the ambient mode "cloud"
C8_Witness ==
  \E s \in Sessions :
    /\ last[s].op = "create" /\ last[s].exc = UnsupportedMode
    /\ req[s].execution_mode = None
    /\ obj[s].execution_mode = s_cloud

\* no browser process was started for s
NoBrowserStarted(s) ==
  /\ driver[s].kind = "none"
  /\ \A i \in DOMAIN calls[s] : calls[s][i] \notin StartCalls

\* C9 as stated: in local mode a browser name outside {"chrome", "firefox"}
\* makes create fail with the unsupported-browser error before a browser is
\* started; the remote mode accepts the name.
C9_UnsupportedBrowser_Original ==
  \A s \in Sessions :
    (Constructed(s) /\ obj[s].browser \notin {s_chrome, s_firefox})
      => /\ IsLocalMode(obj[s].execution_mode)
              => req[s].exc = UnsupportedBrowser /\ NoBrowserStarted(s)
         /\ IsRemoteMode(obj[s].execution_mode)
              => req[s].exc # UnsupportedBrowser

\* C9 amended: in local mode a browser name that is, ignoring case, neither
\* "chrome" nor "firefox" makes create fail with the unsupported-browser error
\* before a browser is started; the remote mode accepts the name.
C9_UnsupportedBrowser ==
  \A s \in Sessions :
    (Constructed(s) /\ Lower(obj[s].browser) \notin {s_chrome, s_firefox})
      => /\ IsLocalMode(obj[s].execution_mode)
              => req[s].exc = UnsupportedBrowser /\ NoBrowserStarted(s)
         /\ IsRemoteMode(obj[s].execution_mode)
              => req[s].exc # UnsupportedBrowser

\* C9 witness: a local create was refused for "safari"
C9_Witness ==
  \E s \in Sessions :
    /\ last[s].op = "create" /\ last[s].exc = UnsupportedBrowser
    /\ obj[s].browser = s_safari
    /\ IsLocalMode(obj[s].execution_mode)

\* C10: a session returned by a successful local create has had its window
\* set to 1920x1080 after the browser was started and before the constructor
\* returned.
C10_ViewportNormalised ==
  \A s \in Sessions :
    (obj[s].hasDriver /\ IsLocalMode(obj[s].execution_mode))
      => /\ driver[s].window = <<1920, 1080>>
         /\ Len(calls[s]) >= 2
         /\ calls[s][1] \in {"webdriver.Chrome", "webdriver.Firefox"}
         /\ calls[s][2] = "set_window_size"

\* C10 witness: a local firefox session was just handed to the caller
C10_Witness ==
  \E s \in Sessions :
    /\ last[s].op = "create" /\ last[s].exc = NoExc
    /\ driver[s].kind = "firefox"

\* C11: in Remote mode the profile resolved is the one named by capability_name
\* whenever a capability_name is given, whatever the browser; only without a
\* capability_name does the name come from the browser through the default
\* table.
C11_ProfileByName ==
  \A s \in Sessions :
    (last[s].op = "create" /\ IsRemoteMode(obj[s].execution_mode))
      => /\ resolved[s].done
         /\ resolved[s].name =
              IF ~obj[s].capability_name.isNone THEN obj[s].capability_name.v
              ELSE browser_mapping(obj[s].browser)

\* the positions of call c in the trace of session s
Positions(s, c) == {i \in DOMAIN calls[s] : calls[s][i] = c}

\* both credentials are set to a non-empty value in the environment
CredentialsSet ==
  NameTruthy(env.BROWSERSTACK_USERNAME) /\ NameTruthy(env.BROWSERSTACK_ACCESS_KEY)

\* the two authentication entries that update() merges into the capabilities
AuthKeys == {"browserstack.user", "browserstack.key"}

\* C12: a Remote create resolves the capability profile exactly once and
\* strictly before webdriver.Remote is called; a connection is attempted only
\* with both credentials available, and the map sent to the hub is the
\* resolved profile together with browserstack.user and browserstack.key.
C12_ResolveThenConnect ==
  \A s \in Sessions :
    (last[s].op = "create" /\ IsRemoteMode(obj[s].execution_mode))
      => /\ Cardinality(Positions(s, "get_capability")) = 1
         /\ \A j \in Positions(s, "webdriver.Remote") :
              \E i \in Positions(s, "get_capability") : i < j
         /\ Positions(s, "webdriver.Remote") # {} => CredentialsSet
         /\ driver[s].kind = "remote"
              => /\ AuthKeys \subseteq DOMAIN driver[s].sent.v
                 /\ driver[s].sent.v["browserstack.user"] =
                      env.BROWSERSTACK_USERNAME.v
                 /\ driver[s].sent.v["browserstack.key"] =
                      env.BROWSERSTACK_ACCESS_KEY.v
                 /\ \A k \in DOMAIN resolved[s].caps.v :
                      driver[s].sent.v[k] = resolved[s].caps.v[k]
                 /\ DOMAIN driver[s].caps.v =
                      DOMAIN resolved[s].caps.v \cup AuthKeys

\* C12 witness: a remote session was opened for the profile the given name
\* selects, not the one the browser would select
C12_Witness ==
  \E s \in Sessions :
    /\ driver[s].kind = "remote"
    /\ obj[s].browser = s_firefox
    /\ resolved[s].name = "Windows_10_Chrome"
    /\ Positions(s, "webdriver.Remote") = {2}

\* C13: the credentials never reach a profile: whatever remote sessions have
\* been created before, a profile returned by _get_capability_by_name holds
\* neither browserstack.user nor browserstack.key.
C13_ProfilesWithoutCredentials ==
  \A s \in Sessions :
    (resolved[s].done /\ resolved[s].exc = NoExc)
      => AuthKeys \cap DOMAIN resolved[s].caps.v = {}

\* C13 witness: two remote sessions carry the credentials in their
\* capabilities, and the profile of the first one's name was resolved again
\* afterwards
C13_Witness ==
  /\ driver["s1"].kind = "remote" /\ driver["s2"].kind = "remote"
  /\ AuthKeys \subseteq DOMAIN driver["s1"].caps.v
  /\ last["s1"].op = "resolve" /\ last["s1"].exc = NoExc
  /\ resolved["s1"].name = "Windows_10_Chrome"
  /\ obj["s1"].capability_name = Some("Windows_10_Chrome")

\* the elements of a sequence
Range(seq) == {seq[i] : i \in DOMAIN seq}

\* what the name of a profile says about the platform and the browser
ProfileMatches(name, caps) ==
  CASE name = "Windows_10_Chrome" ->
         caps.os = "Windows" /\ caps.osVersion = "10"
           /\ caps.browserName = s_Chrome
    [] name = "macOS_Safari" ->
         caps.os = "OS X" /\ caps.browserName = s_Safari
    [] name = "macOS_Ventura_Firefox" ->
         caps.os = "OS X" /\ caps.osVersion = "Ventura"
           /\ caps.browserName = s_Firefox
    [] name = "macOS_Monterey_Firefox" ->
         caps.os = "OS X" /\ caps.osVersion = "Monterey"
           /\ caps.browserName = s_Firefox
    [] name = "Samsung_Galaxy_S22_Chrome" ->
         caps.deviceName = "Samsung Galaxy S22" /\ caps.browserName = s_Chrome
    [] OTHER -> FALSE

\* C14: _get_capability_by_name fails for a name that is not registered with
\* the unknown-capability ValueError, whose message lists exactly the names
\* that do resolve, and returns for every registered name the profile of that
\* name and raises nothing.
C14_ResolveByName ==
  \A s \in Sessions :
    resolved[s].done
      => /\ resolved[s].exc \in {NoExc, UnknownCapability}
         /\ resolved[s].exc = UnknownCapability
              => /\ resolved[s].caps = None
                 /\ resolved[s].name \notin Range(resolved[s].listed)
                 /\ \A n \in ResolveArgs :
                      n \in Range(resolved[s].listed)
                        <=> get_capability_by_name(n, SHARED_BUILD_NAME,
                                                   now).exc = NoExc
         /\ resolved[s].exc = NoExc
              => /\ ~resolved[s].caps.isNone
                 /\ ProfileMatches(resolved[s].name, resolved[s].caps.v)
         /\ resolved[s].exc = NoExc <=> resolved[s].name \in CapabilityNames

\* C14 witness: a direct call with an unregistered name raised the
\* unknown-capability error
C14_Witness ==
  /\ last["s1"].op = "resolve"
  /\ last["s1"].exc = UnknownCapability
  /\ resolved["s1"].name = "Invalid_Capability"
  /\ Len(resolved["s1"].listed) = 5

\* the remote creation of s took the name from the browser table
DefaultPath(s) ==
  /\ last[s].op = "create"
  /\ IsRemoteMode(obj[s].execution_mode)
  /\ ~NameTruthy(obj[s].capability_name)

\* C15: resolving through the browser table never fails: chrome gives
\* Windows_10_Chrome, safari macOS_Safari and firefox macOS_Ventura_Firefox,
\* whatever the case of the browser name, every other browser name gives
\* Windows_10_Chrome, and no browser name gives macOS_Monterey_Firefox.
C15_DefaultTable ==
  \A s \in Sessions :
    DefaultPath(s)
      => /\ resolved[s].done /\ resolved[s].exc = NoExc
         /\ ProfileMatches(resolved[s].name, resolved[s].caps.v)
         /\ Lower(obj[s].browser) = s_chrome
              => resolved[s].name = "Windows_10_Chrome"
         /\ Lower(obj[s].browser) = s_safari
              => resolved[s].name = "macOS_Safari"
         /\ Lower(obj[s].browser) = s_firefox
              => resolved[s].name = "macOS_Ventura_Firefox"
         /\ Lower(obj[s].browser) \notin {s_chrome, s_safari, s_firefox}
              => resolved[s].name = "Windows_10_Chrome"
         /\ resolved[s].name # "macOS_Monterey_Firefox"

\* C15 witness: a creation without capability name for the browser "Firefox"
\* resolved the Ventura profile
C15_Witness ==
  /\ DefaultPath("s1")
  /\ obj["s1"].capability_name = None
  /\ obj["s1"].browser = s_Firefox
  /\ resolved["s1"].name = "macOS_Ventura_Firefox"
  /\ resolved["s1"].caps.v.osVersion = "Ventura"

\* a dictionary without one of its keys
Without(caps, key) == [k \in DOMAIN caps \ {key} |-> caps[k]]

\* C16: the options object passed to webdriver.Remote is a ChromeOptions for
\* a profile whose browserName is Chrome, a FirefoxOptions for Firefox and a
\* ChromeOptions for any other browserName (Safari) or for a dictionary
\* without browserName, and every entry of the merged capabilities is set on
\* it.
C16_OptionsByFamily ==
  \A s \in Sessions :
    driver[s].kind = "remote"
      => LET capabilities == driver[s].caps.v
             family == Lower(capabilities.browserName)
         IN  /\ family = s_chrome => driver[s].options = "ChromeOptions"
             /\ family = s_firefox => driver[s].options = "FirefoxOptions"
             /\ family \notin {s_chrome, s_firefox}
                  => driver[s].options = "ChromeOptions"
             /\ OptionsFor(Without(capabilities, "browserName"))
                  = "ChromeOptions"
             /\ \A k \in DOMAIN capabilities :
                  /\ k \in DOMAIN driver[s].sent.v
                  /\ driver[s].sent.v[k] = capabilities[k]

\* C16 witness: the Safari profile was sent on a ChromeOptions object and the
\* Firefox profile on a FirefoxOptions object
C16_Witness ==
  /\ driver["s1"].kind = "remote"
  /\ driver["s1"].caps.v.browserName = s_Safari
  /\ driver["s1"].options = "ChromeOptions"
  /\ driver["s1"].sent.v.browserName = s_Safari
  /\ driver["s2"].kind = "remote"
  /\ driver["s2"].options = "FirefoxOptions"

\* the creation of s called webdriver.Remote and got no session from it
ConnectFailed(s) ==
  /\ last[s].op = "create"
  /\ Positions(s, "webdriver.Remote") # {}
  /\ driver[s].kind # "remote"

\* C17: when webdriver.Remote fails, the creation has called it exactly once,
\* has logged the failure after the call and raises that same exception to
\* its caller; the object has no driver afterwards.
C17_ConnectFailure ==
  \A s \in Sessions :
    /\ last[s].op = "create"
         => Cardinality(Positions(s, "webdriver.Remote")) <= 1
    /\ ConnectFailed(s)
         => /\ Cardinality(Positions(s, "webdriver.Remote")) = 1
            /\ \E i \in Positions(s, "logger.error") :
                 \A j \in Positions(s, "webdriver.Remote") : j < i
            /\ last[s].exc = ConnectError
            /\ pc[s] = "failed"
            /\ ~obj[s].hasDriver
            /\ driver[s] = NoDriver

\* C17 witness: a creation with both credentials and a registered name whose
\* connection to the hub failed
C17_Witness ==
  /\ ConnectFailed("s1")
  /\ CredentialsSet
  /\ resolved["s1"].name = "Samsung_Galaxy_S22_Chrome"
  /\ calls["s1"] = <<"get_capability", "webdriver.Remote", "logger.error">>

\* s was created in Remote mode while a credential was unset or empty
CreatedWithoutCredentials(s) ==
  /\ last[s].op = "create"
  /\ IsRemoteMode(obj[s].execution_mode)
  /\ ~CredentialsSet

\* C18 as stated: a Remote create with a missing (unset or empty) credential
\* fails with the configuration error, and webdriver.Remote is never called.
C18_MissingCredentials_Original ==
  \A s \in Sessions :
    CreatedWithoutCredentials(s)
      => /\ last[s].exc = MissingEnv
         /\ Positions(s, "webdriver.Remote") = {}

\* C18: a Remote create with a missing (unset or empty) credential fails with
\* the configuration error when its capability name resolves and with the
\* unknown-capability error when it does not; in both cases webdriver.Remote
\* is never called and the object gets no driver.
C18_MissingCredentials ==
  \A s \in Sessions :
    CreatedWithoutCredentials(s)
      => /\ resolved[s].exc = NoExc => last[s].exc = MissingEnv
         /\ resolved[s].exc # NoExc => last[s].exc = UnknownCapability
         /\ Positions(s, "webdriver.Remote") = {}
         /\ calls[s] = <<"get_capability">>
         /\ pc[s] = "failed" /\ ~obj[s].hasDriver

\* C18 witness: BROWSERSTACK_USERNAME is set to the empty string and the
\* creation for a registered name failed with the configuration error
C18_Witness ==
  /\ CreatedWithoutCredentials("s1")
  /\ env.BROWSERSTACK_USERNAME = Some("")
  /\ env.BROWSERSTACK_ACCESS_KEY = Some("key")
  /\ resolved["s1"].name = "macOS_Monterey_Firefox"
  /\ last["s1"].exc = MissingEnv

\* the wait-bounded call on s is inside WebDriverWait.until
Waiting(s) == wait[s].status \in {"polling", "sleeping"}

\* the wait-bounded call on s has returned or raised
WaitOver(s) == wait[s].status \in {"returned", "raised"}

\* the outcome of the wait on s is right for the polls it has made: it goes
\* on after a poll only if the condition did not hold there, it returns the
\* element on which the condition held, and it raises only TimeoutException,
\* only after more than wait_time has passed and only if the condition held
\* at none of its polls
WaitOutcomeRight(s) ==
  LET w == wait[s]
  IN  /\ w.status = "sleeping" => ~w.held
      /\ w.status = "returned"
           => /\ w.held /\ w.exc = NoExc
              /\ ~w.result.isNone /\ Condition(w.op, w.result.v)
              /\ w.elapsed <= w.end_time
              /\ last[s].op = w.op /\ last[s].exc = NoExc
      /\ w.status = "raised"
           => /\ ~w.held /\ w.result = None
              /\ w.exc = TimeoutException
              /\ w.elapsed > w.wait_time * PollsPerSecond
              /\ w.polls >= 1
              /\ last[s].op = w.op /\ last[s].exc = TimeoutException
      /\ WaitOver(s) => (w.exc = NoExc <=> ~w.result.isNone)

\* C19: find_element, wait_for_element_visible and wait_for_element_clickable
\* return the element at the first poll at which their condition holds and
\* raise nothing before the timeout has passed; a call whose condition holds
\* at no poll ends, once the timeout has passed, by raising TimeoutException
\* to its caller, never by returning None; every call ends.
C19_WaitOutcome ==
  /\ [](\A s \in Sessions : WaitOutcomeRight(s))
  /\ \A s \in Tracked : Waiting(s) ~> WaitOver(s)

\* C19 witness: the element became clickable while wait_for_element_clickable
\* was waiting, and the call returned it at a later poll, before its timeout
C19_Witness ==
  /\ wait["s1"].op = "wait_for_element_clickable"
  /\ wait["s1"].status = "returned"
  /\ wait["s1"].polls >= 2
  /\ wait["s1"].elapsed < wait["s1"].end_time
  /\ wait["s1"].result = Some("enabled")

\* C20: the timeouts of find_element, wait_for_element_visible and
\* wait_for_element_clickable reach the caller as three different kinds of
\* error: the error a call raised is of a kind that neither of the other two
\* calls raises on timeout.
C20_DistinctErrorKinds ==
  \A s \in Sessions :
    wait[s].status = "raised"
      => \A op \in WaitOps \ {wait[s].op} :
           OnTimeout(op).exc.type # wait[s].exc.type

\* C21: find_elements never raises for "nothing found": when no element
\* is present at any poll before the time is up it returns the empty list, and
\* when the presence wait succeeds it returns the list of the elements that
\* match at the lookup made after the wait, a list that may be empty
C21_LocateAll ==
  [][\A s \in Sessions :
       wait'[s].op = "find_elements" =>
         /\ wait'[s].status # "raised"
         /\ wait'[s].exc = NoExc
         /\ (wait[s].status = "sleeping" /\ wait'[s].status = "returned") =>
              /\ ~wait'[s].held
              /\ wait'[s].result = Some(<<>>)
         /\ (wait[s].status = "found" /\ wait'[s].status = "returned") =>
              /\ wait'[s].held
              /\ wait'[s].result = Some(Matches(page[s]))]_vars

\* a find_elements call whose time ran out with no element present has
\* returned the empty list
C21_Witness ==
  /\ wait["s1"].op = "find_elements"
  /\ wait["s1"].status = "returned"
  /\ ~wait["s1"].held
  /\ wait["s1"].elapsed > wait["s1"].end_time
  /\ wait["s1"].exc = NoExc
  /\ wait["s1"].result = Some(<<>>)

\* C22: is_element_present makes one lookup, with no wait and no poll loop:
\* it returns True exactly if an element matches at that instant, it returns
\* False for absence and raises nothing, and it spends no time that depends on
\* the session's timeout
C22_Exists ==
  [][\A s \in Sessions :
       (wait'[s].op = "is_element_present" /\ wait'[s] # wait[s]) =>
         /\ wait'[s].status = "returned"
         /\ wait'[s].exc = NoExc
         /\ wait'[s].result = Some(page[s] # "absent")
         /\ wait'[s].polls = 1
         /\ wait'[s].waits = 0
         /\ wait'[s].elapsed = 0
         /\ page'[s] = page[s]]_vars

\* is_element_present has returned False on a page without the element, in a
\* session whose timeout is the longer one
C22_Witness ==
  /\ wait["s1"].op = "is_element_present"
  /\ wait["s1"].status = "returned"
  /\ wait["s1"].result = Some(FALSE)
  /\ page["s1"] = "absent"
  /\ obj["s1"].timeout = 2

\* C23: every wait-bounded call waits by its timeout argument whenever the
\* caller gives one, whatever its value, and by the session's timeout only
\* when no argument is given
C23_OverrideBoundsWait ==
  \A s \in Sessions :
    wait[s].op \in WaitingOps =>
      /\ wait[s].wait_time = IF wait[s].timeout.isNone
                             THEN obj[s].timeout
                             ELSE wait[s].timeout.v
      /\ wait[s].end_time = wait[s].wait_time * PollsPerSecond

\* the timeout a wait-bounded call was asked to keep: its argument when one
\* was given, the session's timeout otherwise
AskedTimeout(s) ==
  IF wait[s].timeout.isNone THEN obj[s].timeout ELSE wait[s].timeout.v

\* the timeout arguments a caller gives
GivenTimeouts == {o.v : o \in OverrideArgs \ {None}}

\* C24: a wait-bounded call on an element that is never there ends no later
\* than its timeout plus one round of the polling loop, and a call with the
\* smaller of two timeouts waits no longer than the same call with the larger
C24_BoundedWait ==
  \A s \in Sessions :
    /\ (wait[s].op \in WaitingOps /\ WaitOver(s) /\ ~wait[s].held) =>
         wait[s].elapsed <= AskedTimeout(s) * PollsPerSecond + MaxStep
    /\ Constructed(s) =>
         \A T1 \in GivenTimeouts, T2 \in GivenTimeouts :
           T1 < T2 => WaitTime(Some(T1), obj[s]) <= WaitTime(Some(T2), obj[s])

\* C25: click_element waits for the element to be clickable and then clicks
\* it exactly once: nothing is clicked while it waits or when the wait times
\* out, and a click that fails is raised to the caller after that one click
\* and that one wait
C25_Click ==
  \A s \in Sessions :
    wait[s].op = "click_element" =>
      /\ wait[s].waits = 1
      /\ wait[s].status \in {"polling", "sleeping", "found"} =>
           wait[s].acts = <<>>
      /\ (wait[s].status = "raised" /\ ~wait[s].held) =>
           /\ wait[s].exc = TimeoutException
           /\ wait[s].acts = <<>>
      /\ wait[s].status = "returned" =>
           /\ wait[s].held
           /\ wait[s].exc = NoExc
           /\ wait[s].acts = <<Act("click", <<>>)>>
      /\ (wait[s].status = "raised" /\ wait[s].held) =>
           /\ wait[s].exc = ClickError
           /\ wait[s].acts = <<Act("click", <<>>)>>

\* a click on a clickable element has failed and click_element has raised the
\* error after its one click
C25_Witness ==
  /\ wait["s1"].op = "click_element"
  /\ wait["s1"].status = "raised"
  /\ wait["s1"].held
  /\ wait["s1"].exc = ClickError
  /\ wait["s1"].acts = <<Act("click", <<>>)>>

\* C26: send_keys_to_element waits for the element to be visible, then
\* clears it, then sends the given text once and unchanged: nothing is cleared
\* or sent while it waits or when the wait times out, and the text is not sent
\* when clear fails
C26_Type ==
  \A s \in Sessions :
    wait[s].op = "send_keys_to_element" =>
      /\ wait[s].waits = 1
      /\ wait[s].status \in {"polling", "sleeping", "found"} =>
           wait[s].acts = <<>>
      /\ (wait[s].status = "raised" /\ ~wait[s].held) =>
           /\ wait[s].exc = TimeoutException
           /\ wait[s].acts = <<>>
      /\ wait[s].status = "returned" =>
           /\ wait[s].held
           /\ wait[s].exc = NoExc
           /\ wait[s].acts =
                <<Act("clear", <<>>), Act("send_keys", wait[s].text)>>
      /\ (wait[s].status = "raised" /\ wait[s].held) =>
           \/ /\ wait[s].exc = ClearError
              /\ wait[s].acts = <<Act("clear", <<>>)>>
           \/ /\ wait[s].exc = SendKeysError
              /\ wait[s].acts =
                   <<Act("clear", <<>>), Act("send_keys", wait[s].text)>>

\* a text with blanks around it has been typed into a visible element
C26_Witness ==
  /\ wait["s1"].op = "send_keys_to_element"
  /\ wait["s1"].status = "returned"
  /\ wait["s1"].text = <<" ", "a", " ">>
  /\ wait["s1"].acts = <<Act("clear", <<>>), Act("send_keys", <<" ", "a", " ">>)>>

\* C30: the execution mode and the timeout recorded in a session are those
\* of its construction: no navigation, lookup, wait, click, typing, read or
\* close, and no timeout argument of a call, changes either of them
C30_ModeAndTimeoutFixed ==
  [][\A s \in Sessions :
       Constructed(s) =>
         /\ obj'[s].execution_mode = obj[s].execution_mode
         /\ obj'[s].timeout = obj[s].timeout]_vars

\* a call with a timeout argument other than the session's timeout has ended
\* and the session has been closed; the session still records local mode and
\* the timeout of its construction
C30_Witness ==
  /\ wait["s1"].op = "click_element"
  /\ wait["s1"].timeout = Some(3)
  /\ WaitOver("s1")
  /\ closeCalls["s1"] = 1
  /\ obj["s1"].timeout = 2
  /\ obj["s1"].execution_mode = s_local

\* C27: the build name is written once: after its first computation no
\* call changes the module global, and every profile resolved in the run
\* carries the name computed by the first call
C27_BuildNameWriteOnce ==
  /\ [][~SHARED_BUILD_NAME.isNone => SHARED_BUILD_NAME' = SHARED_BUILD_NAME]_vars
  /\ [](\A s \in Sessions :
          (resolved[s].done /\ ~resolved[s].caps.isNone) =>
            /\ ~SHARED_BUILD_NAME.isNone
            /\ resolved[s].caps.v.buildName = SHARED_BUILD_NAME.v)

\* both sessions have resolved a profile, the clock has advanced since the
\* name was computed, and both profiles carry the name of the first call
C27_Witness ==
  /\ SHARED_BUILD_NAME = Some(BuildNameAt(0))
  /\ now >= 1
  /\ resolved["s1"].done /\ ~resolved["s1"].caps.isNone
  /\ resolved["s2"].done /\ ~resolved["s2"].caps.isNone
  /\ resolved["s1"].caps.v.buildName = BuildNameAt(0)
  /\ resolved["s2"].caps.v.buildName = BuildNameAt(0)
  /\ Len(calls["s1"]) >= MaxTrace

\* C28: when the first calls of get_build_name() of sessions created at the
\* same time interleave, the global is assigned at most once and all callers
\* obtain the same name
C28_ConcurrentWriteOnce ==
  /\ Cardinality({s \in Sessions : build[s].wrote}) <= 1
  /\ \A s \in Sessions, t \in Sessions :
       (/\ resolved[s].done /\ ~resolved[s].caps.isNone
        /\ resolved[t].done /\ ~resolved[t].caps.isNone) =>
         resolved[s].caps.v.buildName = resolved[t].caps.v.buildName

\* what a session holds: its attributes, its driver and the calls made on
\* that driver
Holds(s) == <<obj[s], driver[s], calls[s]>>

\* C29: sessions are independent: a step that creates, uses, closes or fails
\* one session changes no other session's driver, mode or timeout, and issues
\* no quit to another session's driver
C29_SessionsIndependent ==
  [][\A s \in Sessions : \A t \in Sessions \ {s} :
       (\/ Holds(s)' # Holds(s)
        \/ last'[s] # last[s]
        \/ wait'[s] # wait[s]
        \/ closeCalls'[s] # closeCalls[s]) =>
         /\ driver'[t] = driver[t]
         /\ obj'[t].execution_mode = obj[t].execution_mode
         /\ obj'[t].timeout = obj[t].timeout
         /\ obj'[t].hasDriver = obj[t].hasDriver
         /\ QuitCalls(t)' = QuitCalls(t)]_vars

\* one session has been created and closed next to a session that has been
\* used and is still open, with its own timeout and its own driver
C29_Witness ==
  /\ pc["s1"] = "ready" /\ closeCalls["s1"] >= 1 /\ QuitCalls("s1") >= 1
  /\ obj["s1"].timeout = 1
  /\ pc["s2"] = "ready" /\ closeCalls["s2"] = 0 /\ QuitCalls("s2") = 0
  /\ obj["s2"].timeout = 2
  /\ obj["s2"].hasDriver
  /\ driver["s2"].kind # "none"
  /\ wait["s2"].op = "click_element" /\ WaitOver("s2")

\* the latest validate_credentials call got a response from the endpoint
GotResponse ==
  (~validator.credentials.isNone) /\ validator.credentials.v.request.kind = "response"

\* C31 as stated: for every response, the result is valid exactly when the
\* status is 200, the invalid-credentials message exactly when it is 401, and
\* the message with the status code for every other status
C31_StatusMapping_Original ==
  GotResponse =>
    LET r == validator.credentials.v.request
        res == validator.credentials.v.result
    IN  /\ res.ok <=> r.status = 200
        /\ r.status = 401 => res.msg = <<"Invalid username or access key">>
        /\ r.status \notin {200, 401} =>
             res.msg = <<"API returned status code: ", r.status>>

\* C31: for every response, the result is valid exactly when the status is
\* 200 and the body is a JSON object; a 200 whose body cannot be read gives the
\* unexpected-error failure, 401 gives the invalid-credentials message, every
\* other status gives the message with its status code, and these results
\* are pairwise distinct
C31_StatusMapping ==
  GotResponse =>
    LET r == validator.credentials.v.request
        res == validator.credentials.v.result
    IN  /\ res.exc = NoExc
        /\ res.ok <=> (r.status = 200 /\ r.body \in {"plan", "object"})
        /\ res.ok => res.msg[1] = "Valid credentials - Plan: "
        /\ (r.status = 200 /\ ~res.ok) => res.msg[1] = "Unexpected error: "
        /\ r.status = 401 => res.msg = <<"Invalid username or access key">>
        /\ r.status \notin {200, 401} =>
             res.msg = <<"API returned status code: ", r.status>>

\* the endpoint has answered 200 with a body that is no JSON and the result
\* is a failure
C31_Witness ==
  /\ GotResponse
  /\ validator.credentials.v.request = Response(200, "unparsable")
  /\ ~validator.credentials.v.result.ok

\* C32: BrowserStackValidator() raises nothing, whether or not the
\* credentials are configured
C32_ValidatorConstructs ==
  validator.made # "no" => (validator.made = "yes" /\ validator.exc = NoExc)

\* C34: validate_browserstack_credentials raises nothing and returns True
\* exactly when BROWSERSTACK_USERNAME and BROWSERSTACK_ACCESS_KEY are both set
\* and not empty; after True every read of a credential returns its value,
\* and after False one of the two reads fails with the missing-variable error
C34_CredentialsCheck ==
  (~checked.has.isNone) =>
    /\ checked.has.v.exc = NoExc
    /\ checked.has.v.v <=>
         (/\ ~env.BROWSERSTACK_USERNAME.isNone /\ env.BROWSERSTACK_USERNAME.v # ""
          /\ ~env.BROWSERSTACK_ACCESS_KEY.isNone /\ env.BROWSERSTACK_ACCESS_KEY.v # "")
    /\ checked.has.v.v =>
         /\ (~checked.username.isNone) =>
              /\ checked.username.v.exc = NoExc
              /\ checked.username.v.v = env.BROWSERSTACK_USERNAME.v
         /\ (~checked.access_key.isNone) =>
              /\ checked.access_key.v.exc = NoExc
              /\ checked.access_key.v.v = env.BROWSERSTACK_ACCESS_KEY.v
    /\ (~checked.has.v.v /\ ~checked.username.isNone /\ ~checked.access_key.isNone) =>
         \/ checked.username.v.exc = MissingEnv
         \/ checked.access_key.v.exc = MissingEnv

\* the username is set and the access key is set to the empty string: the
\* check has returned False, the username is read and the access key is refused
C34_Witness ==
  /\ env.BROWSERSTACK_USERNAME = Some("user")
  /\ env.BROWSERSTACK_ACCESS_KEY = Some("")
  /\ checked.has = Some([exc |-> NoExc, v |-> FALSE])
  /\ ~checked.username.isNone /\ checked.username.v.exc = NoExc
  /\ ~checked.access_key.isNone /\ checked.access_key.v.exc = MissingEnv

\* C37: validate_credentials and full_validation raise nothing: a timeout of
\* the request, a connection error, any other error of the request and a body
\* that cannot be read each give a failure result with a message, and
\* full_validation returns True exactly when validate_credentials on the same
\* outcome reports success
C37_ValidatorNeverRaises ==
  /\ (~validator.credentials.isNone) =>
       LET r == validator.credentials.v.request
           res == validator.credentials.v.result
       IN  /\ res.exc = NoExc
           /\ (\/ r.kind \in RequestErrors
               \/ (r.kind = "response" /\ r.status = 200
                     /\ r.body \in {"array", "unparsable"})) =>
                /\ ~res.ok
                /\ Len(res.msg) > 0
  /\ (~validator.full.isNone) =>
       LET r == validator.full.v.request
           res == validator.full.v.result
       IN  /\ res.exc = NoExc
           /\ res.v <=> validate_credentials(r).ok
           /\ res.v => (r.kind = "response" /\ r.status = 200)

\* a request that failed with an error other than timeout or connection
\* error has given a failure result, and full_validation has returned False
\* for a body that is no JSON
C37_Witness ==
  /\ ~validator.credentials.isNone
  /\ validator.credentials.v.request = Raised("RequestException")
  /\ ~validator.credentials.v.result.ok
  /\ ~validator.full.isNone
  /\ validator.full.v.request = Response(200, "unparsable")
  /\ validator.full.v.result = [exc |-> NoExc, v |-> FALSE]

\* C33: get_all_capabilities, get_capability_names and
\* get_capabilities_with_names each return exactly three entries, and the
\* names include Windows_10_Chrome, macOS_Ventura_Firefox and
\* Samsung_Galaxy_S22_Chrome
C33_ThreeCapabilities ==
  /\ (~listing.all.isNone) => Len(listing.all.v) = 3
  /\ (~listing.names.isNone) =>
       /\ Len(listing.names.v) = 3
       /\ {"Windows_10_Chrome", "macOS_Ventura_Firefox",
           "Samsung_Galaxy_S22_Chrome"} \subseteq Range(listing.names.v)
  /\ (~listing.pairs.isNone) => Len(listing.pairs.v) = 3

\* C40: every (name, capability) pair of get_capabilities_with_names agrees
\* with capability_methods: the name is one of its names and the capability
\* equals the profile that _get_capability_by_name returns for that name
C40_PairsMatchRegistry ==
  (~listing.pairs.isNone) =>
    \A i \in DOMAIN listing.pairs.v :
      /\ listing.pairs.v[i][1] \in CapabilityNames
      /\ \E got \in {get_capability_by_name(listing.pairs.v[i][1], SHARED_BUILD_NAME, now)} :
           /\ got.exc = NoExc
           /\ got.caps = Some(listing.pairs.v[i][2])
      /\ \A s \in Sessions :
           (resolved[s].done /\ resolved[s].name = listing.pairs.v[i][1]) =>
             resolved[s].caps = Some(listing.pairs.v[i][2])

\* the pairs have been listed and the name of the third pair has been
\* resolved on a page, a second or more after the build name was computed
C40_Witness ==
  /\ ~listing.pairs.isNone
  /\ Len(listing.pairs.v) = 4
  /\ listing.pairs.v[3][1] = "macOS_Monterey_Firefox"
  /\ resolved["s1"].done
  /\ resolved["s1"].name = "macOS_Monterey_Firefox"
  /\ resolved["s1"].caps = Some(listing.pairs.v[3][2])
  /\ SHARED_BUILD_NAME = Some(BuildNameAt(0))
  /\ now >= 1

\* C35: no browser started by the constructor is left running without a
\* session that owns it: when the constructor fails after the browser was
\* started, the browser has been quit by the time the failure reaches the
\* caller
C35_NoOrphanBrowser ==
  \A s \in Sessions :
    (pc[s] = "failed" /\ driver[s].kind # "none") => QuitCalls(s) >= 1

\* the positions of test.events that hold event kind ev with status st
EventsAt(ev, st) ==
  {i \in DOMAIN test.events : test.events[i].ev = ev /\ test.events[i].status = st}

\* C36: in the cross-browser test "started" is reported before the first
\* workflow step, "passed" only after the workflow has completed without
\* error, "failed" only after it has raised, never both; an exception of the
\* workflow is the exception the test raises to the runner; close() runs on
\* both paths; and a failed status report changes nothing of this
C36_StatusOrder ==
  /\ \A i \in EventsAt("step", "") : \E j \in EventsAt("status", "started") : j < i
  /\ EventsAt("status", "passed") # {} =>
       (test.steps = WorkflowLength /\ test.workflow = NoExc)
  /\ EventsAt("status", "failed") # {} => test.workflow # NoExc
  /\ ~(EventsAt("status", "passed") # {} /\ EventsAt("status", "failed") # {})
  /\ test.at = "done" =>
       /\ Cardinality(EventsAt("close", "")) = 1
       /\ test.workflow # NoExc => test.outcome = Some(test.workflow)

\* the attempts of the latest filter_by_samsung call are made in the order
\* label, span, container, each after a failed one, and end at the first click
ChainInOrder(f) ==
  /\ Len(f.attempts) <= 3
  /\ \A i \in DOMAIN f.attempts :
       /\ f.attempts[i].locator = <<"label", "span", "container">>[i]
       /\ i < Len(f.attempts) => f.attempts[i].outcome # "clicked"
  /\ Cardinality({i \in DOMAIN f.attempts : f.attempts[i].outcome = "clicked"}) <= 1

\* all three attempts were made and failed
AllAttemptsFailed(f) ==
  /\ Len(f.attempts) = 3
  /\ \A i \in DOMAIN f.attempts : f.attempts[i].outcome # "clicked"

\* C38 as stated: the chain is in order and stops at the first click, and
\* filter_by_samsung fails only when all three attempts failed
C38_FallbackChain_Original ==
  (~product.filter.isNone) =>
    /\ ChainInOrder(product.filter.v)
    /\ product.filter.v.exc # NoExc => AllAttemptsFailed(product.filter.v)

\* C38: the label locator is tried first, the span locator only after a
\* failed label attempt, the container locator only after a failed span
\* attempt, and the chain ends at the first click; the chain fails, with its
\* own error, exactly when all three attempts failed; besides that
\* filter_by_samsung fails only with the timeout of one of the waits before
\* and after the chain
C38_FallbackChain ==
  (~product.filter.isNone) =>
    /\ ChainInOrder(product.filter.v)
    /\ product.filter.v.exc = FilterError <=> AllAttemptsFailed(product.filter.v)
    /\ product.filter.v.exc \notin {NoExc, FilterError} =>
         /\ product.filter.v.exc = TimeoutException
         /\ product.filter.v.at \in {"wait_for_products_to_load",
                                     "get_vendor_filters_container",
                                     "wait_for_filtered_products_to_load"}
    /\ product.filter.v.exc = NoExc =>
         Cardinality({i \in DOMAIN product.filter.v.attempts :
                        product.filter.v.attempts[i].outcome = "clicked"}) = 1

\* the wait for the label has timed out, the click on the span has raised and
\* the container has been clicked
C38_Witness ==
  /\ ~product.filter.isNone
  /\ product.filter.v.exc = NoExc
  /\ product.filter.v.attempts =
       <<Attempt("label", "wait_failed"), Attempt("span", "click_failed"),
         Attempt("container", "clicked")>>

\* C39 as stated: is_galaxy_s20_plus_visible raises nothing; when the lookup
\* by ID finds an element it returns that element's displayed state and the
\* data-sku locator is not tried; when the lookup by ID fails it returns the
\* displayed state of the element found by data-sku, and False when that
\* lookup fails too
C39_VisibleNeverRaises_Original ==
  (~product.visible.isNone) =>
    LET r == product.visible.v
    IN  /\ r.exc = NoExc
        /\ r.byId # "absent" => (r.tried = <<"id">> /\ r.v = (r.byId = "shown"))
        /\ r.byId = "absent" =>
             /\ r.tried = <<"id", "sku">>
             /\ r.v = (r.bySku = "shown")

\* C39: is_galaxy_s20_plus_visible raises nothing; it returns the displayed
\* state of the element found by ID when that state can be read; it tries
\* the data-sku locator exactly when the lookup by ID or the reading of the
\* displayed state fails, and then returns the displayed state of the element
\* found by data-sku, and False when that cannot be had either
C39_VisibleNeverRaises ==
  (~product.visible.isNone) =>
    LET r == product.visible.v
    IN  /\ r.exc = NoExc
        /\ r.byId \in {"hidden", "shown"} =>
             (r.tried = <<"id">> /\ r.v = (r.byId = "shown"))
        /\ r.byId \in {"absent", "stale"} =>
             /\ r.tried = <<"id", "sku">>
             /\ r.v = (r.bySku = "shown")

\* the card was found by ID and went stale before its displayed state was
\* read; the element found by data-sku is displayed and True is returned
C39_Witness ==
  /\ ~product.visible.isNone
  /\ product.visible.v.byId = "stale"
  /\ product.visible.v.bySku = "shown"
  /\ product.visible.v.tried = <<"id", "sku">>
  /\ product.visible.v.v

====
